---- MODULE Spec2Model ----
(***************************************************************************)
(* A model of zcache: a thread-safe map with per-entry expiration times,   *)
(* an eviction callback, a run-once gate for GetOrSet and a janitor.       *)
(*                                                                         *)
(* Spec        one caller at a time: every operation of the cache is one   *)
(*             action (the whole handler, lock to unlock, callbacks        *)
(*             included) and the clock advances between operations.        *)
(* SpecRead    one caller at a time, with the operations that only read.   *)
(* SpecModify  NumThreads callers of Modify on one key and a caller of     *)
(*             Get, interleaved statement by statement under cache.mu.     *)
(* SpecPop     NumThreads callers of Pop on one key and a caller of Get.   *)
(* SpecRemove  a caller of DeleteAll or DeleteFunc, statement by statement, *)
(*             with other callers of Set and OnEvicted.                    *)
(* SpecJanitor one caller at a time and the janitor's goroutine;            *)
(*             FairJanitor is SpecJanitor with the janitor scheduled.      *)
(* SpecGate    NumThreads callers of GetOrSet on one absent key, whose     *)
(*             populate function returns or panics, with the goroutines    *)
(*             GetOrSet starts to forget the key.                          *)
(* SpecPopulate SpecGate on a key that may be present, with other callers  *)
(*             of Get, Set, Delete and Modify while a populate runs.       *)
(* SpecShared  SpecGate with a caller of GetOrSet on a second cache.       *)
(* SpecEvict   NumThreads callers of Delete, Pop, DeleteExpired, DeleteAll *)
(*             and DeleteFunc, with a callback registered that calls back  *)
(*             into the cache.                                             *)
(* SpecKeys    SpecGate with callers that use the same or different keys.  *)
(* SpecKeyset  NumThreads callers of Keyset.Get, Keyset.Delete and         *)
(*             Keyset.Set, one iteration of their loops at a time.         *)
(* SpecProxy   one caller at a time, with a Proxy on the cache.            *)
(* SpecFn      NumThreads callers of Modify, DeleteFunc and Find whose     *)
(*             function may call back into the cache, and a caller of Get. *)
(* SpecReplace NumThreads callers of the removals while another caller     *)
(*             replaces the callback with OnEvicted.                       *)
(* SpecSweep   a caller of DeleteExpired, statement by statement, with     *)
(*             callers of SetWithExpire and TouchWithExpire and the clock. *)
(***************************************************************************)
EXTENDS Integers, Sequences, FiniteSets, TLC

(* ------------------------------------------------------------------ *)
(* Program constants                                                   *)
(* ------------------------------------------------------------------ *)
NoExpiration == -1
DefaultExpiration == 0

(* ------------------------------------------------------------------ *)
(* Bounds of the model                                                 *)
(* ------------------------------------------------------------------ *)
\* The clock reads Now0 at construction and advances at most MaxTicks times.
\* Now0 is large enough that now + d > 0 for every duration d of the model,
\* as it is for a wall clock in nanoseconds since 1970.
Now0 == 3
MaxTicks == 2
MaxNow == Now0 + MaxTicks
\* The ticks of the clock the goroutine started by GetOrSet sleeps before it
\* forgets the key.
SleepTicks == 1
\* The number of operations other callers run while a caller is in DeleteAll
\* or DeleteFunc.
MaxRaces == 1
\* The number of callers running concurrently.
NumThreads == 2
Threads == 1..NumThreads

Keys == {"a", "b"}
\* Stored values are integers; 0 is the zero value of the type.
Values == {0, 1}
Zero == 0
\* Durations callers pass: the two sentinels and two positive durations.
Durations == {NoExpiration, DefaultExpiration, 1, 2}
\* Durations callers pass to Set, Add and Replace: those and a negative
\* duration that is no sentinel.
SetDurations == Durations \cup {NoExpiration - 1}
\* The defaultExpiration arguments given to New().
DeArgs == {NoExpiration, DefaultExpiration, 1}
\* The functions callers pass to Modify.
Fns == {"inc", "zero"}
NoKey == "-"

VARIABLES
    items,              \* cache.items: a function from the keys present to Item
    onEvicted,          \* cache.onEvicted: TRUE when a callback is registered, FALSE for nil
    defaultExpiration,  \* cache.defaultExpiration
    now,                \* the clock, time.Now().UnixNano()
    evicted,            \* the calls of the eviction callback made by the last operation
    ret,                \* the last operation and what it returned
    written             \* history: per key, {t + d} for the Set that wrote it last, at
                        \* clock time t with a TTL d > 0; {} once a caller wrote, touched
                        \* or removed the key otherwise


\* The state of the callers running concurrently.
VARIABLES
    pc,                 \* per thread, where it is in the operation it runs
    mu,                 \* cache.mu: the threads holding the write lock (at most one) and
                        \* those holding the read lock
    loc,                \* per thread, the local variables of the operation it runs
    callback,           \* what the registered callback does: which operation of the
                        \* cache it calls, on the key it is handed
    getOrSetOnce,       \* the once gate of GetOrSet: who holds its mutex m, and done
    forgetters          \* the goroutines that sleep and then Forget a key

gate == <<getOrSetOnce, forgetters>>
conc == <<pc, mu, loc, callback, gate>>

vars == <<items, onEvicted, defaultExpiration, now, evicted, ret, written, conc>>

Item(v, e) == [Object |-> v, Expiration |-> e]

(* ------------------------------------------------------------------ *)
(* Helpers of the cache                                                *)
(* ------------------------------------------------------------------ *)
\* The expression every operation inlines:
\*   item.Expiration > 0 && time.Now().UnixNano() > item.Expiration
expired(item, t) == item.Expiration > 0 /\ t > item.Expiration

\* A map with key k removed: delete(c.items, k).
mapDelete(m, k) == [x \in (DOMAIN m) \ {k} |-> m[x]]

\* A map with key k set: c.items[k] = item.
mapSet(m, k, item) == [x \in (DOMAIN m) \cup {k} |-> IF x = k THEN item ELSE m[x]]

newCache(de) == IF de = 0 THEN -1 ELSE de

\* cache.set without the substitution of the cache's default.
setNoDefault(m, k, v, d, t) ==
    LET e == IF d > 0 THEN t + d ELSE 0
    IN  mapSet(m, k, Item(v, e))

\* cache.set: the map after c.set(k, v, d) at clock time t.
set(m, k, v, d, t) ==
    LET d1 == IF d = DefaultExpiration THEN defaultExpiration ELSE d
        e  == IF d1 > 0 THEN t + d1 ELSE 0
    IN  mapSet(m, k, Item(v, e))

\* cache.get without the check of the expiry.
getNoExpiry(m, k, t) ==
    IF k \notin DOMAIN m THEN [v |-> Zero, ok |-> FALSE]
    ELSE [v |-> m[k].Object, ok |-> TRUE]

\* cache.get: (value, ok) at clock time t.
get(m, k, t) ==
    IF k \notin DOMAIN m THEN [v |-> Zero, ok |-> FALSE]
    ELSE IF expired(m[k], t) THEN [v |-> Zero, ok |-> FALSE]
    ELSE [v |-> m[k].Object, ok |-> TRUE]

\* cache.delete that never reports an eviction.
deleteSilent(m, k, cb) ==
    [items |-> mapDelete(m, k), v |-> Zero, evicted |-> FALSE]

\* cache.delete: the map after, the value handed to the callback and whether
\* the callback is to be called.
delete(m, k, cb) ==
    IF cb /\ k \in DOMAIN m
    THEN [items |-> mapDelete(m, k), v |-> m[k].Object, evicted |-> TRUE]
    ELSE [items |-> mapDelete(m, k), v |-> Zero, evicted |-> FALSE]

\* The function a caller passes to Modify, applied to a value.
Apply(f, v) == IF f = "inc" THEN v + 1 ELSE Zero

Ret(op, k, v, ok) == [op |-> op, k |-> k, v |-> v, ok |-> ok]

\* cache.Get with >= for > in the check of the expiry.
GetReturnGE(m, k, t) ==
    IF k \notin DOMAIN m THEN [v |-> Zero, ok |-> FALSE]
    ELSE IF m[k].Expiration > 0 /\ t >= m[k].Expiration THEN [v |-> Zero, ok |-> FALSE]
    ELSE [v |-> m[k].Object, ok |-> TRUE]

\* What cache.Get returns at clock time t: (value, found).
GetReturn(m, k, t) ==
    IF k \notin DOMAIN m THEN [v |-> Zero, ok |-> FALSE]
    ELSE IF m[k].Expiration > 0 /\ t > m[k].Expiration THEN [v |-> Zero, ok |-> FALSE]
    ELSE [v |-> m[k].Object, ok |-> TRUE]

\* Whether AddWithExpire returns an error: the key already exists.
AddErr(m, k, t) == get(m, k, t).ok

\* Whether ReplaceWithExpire returns an error: the key doesn't exist.
ReplaceErr(m, k, t) == ~get(m, k, t).ok

\* The orders in which a range over a map may visit the keys of S.
Orders(S) == {s \in [1..Cardinality(S) -> S] : \A i, j \in 1..Cardinality(S) : s[i] = s[j] => i = j}

Call(k, v) == [k |-> k, v |-> v]

\* cache.mu with no holder, and the local variables of a thread before it
\* runs anything.
Unlocked == [writer |-> {}, readers |-> {}]
\* The empty map.
NoItems == [x \in {} |-> Item(Zero, 0)]
\* The zero value of once: the mutex free and nothing done. calls is
\* history: the calls of Do, by caller and key, that have invoked their f
\* since the key was last forgotten.
NewOnce == [m |-> {}, done |-> {}, calls |-> {}]
NoLocals == [item |-> Item(Zero, 0), ok |-> FALSE, v |-> Zero]

(* ------------------------------------------------------------------ *)
(* Construction                                                        *)
(* ------------------------------------------------------------------ *)
Init ==
    /\ items = [x \in {} |-> Item(Zero, 0)]
    /\ onEvicted = FALSE
    /\ \E de \in DeArgs : defaultExpiration = newCache(de)
    /\ now = Now0
    /\ evicted = <<>>
    /\ ret = Ret("New", NoKey, Zero, TRUE)
    /\ written = [k \in Keys |-> {}]
    /\ pc = [t \in Threads |-> "idle"]
    /\ mu = Unlocked
    /\ loc = [t \in Threads |-> NoLocals]
    /\ callback = "none"
    /\ getOrSetOnce = NewOnce
    /\ forgetters = {}

(* ------------------------------------------------------------------ *)
(* The operations, one caller at a time                                *)
(* ------------------------------------------------------------------ *)
\* The clock advances.
Tick ==
    /\ now < MaxNow
    /\ now' = now + 1
    /\ UNCHANGED <<conc, items, onEvicted, defaultExpiration, evicted, ret, written>>

\* SetWithExpire that hands an overwritten entry to the callback.
SetWithExpireEvicting(k, v, d) ==
    LET d1 == IF d = DefaultExpiration THEN defaultExpiration ELSE d
        e  == IF d1 > 0 THEN now + d1 ELSE 0
    IN  /\ items' = mapSet(items, k, Item(v, e))
        /\ evicted' = IF onEvicted /\ k \in DOMAIN items
                       THEN <<Call(k, items[k].Object)>> ELSE <<>>
        /\ ret' = Ret("Set", k, Zero, TRUE)
        /\ written' = [written EXCEPT ![k] = IF d1 > 0 THEN {now + d1} ELSE {}]
        /\ UNCHANGED <<conc, onEvicted, defaultExpiration, now>>

SetWithExpire(k, v, d) ==
    LET d1 == IF d = DefaultExpiration THEN defaultExpiration ELSE d
        e  == IF d1 > 0 THEN now + d1 ELSE 0
    IN  /\ items' = mapSet(items, k, Item(v, e))
        /\ evicted' = <<>>
        /\ ret' = Ret("Set", k, Zero, TRUE)
        /\ written' = [written EXCEPT ![k] = IF d1 > 0 THEN {now + d1} ELSE {}]
        /\ UNCHANGED <<conc, onEvicted, defaultExpiration, now>>

TouchWithExpire(k, d) ==
    LET d1 == IF d = DefaultExpiration THEN defaultExpiration ELSE d
    IN  /\ IF k \notin DOMAIN items
           THEN /\ items' = items
                /\ ret' = Ret("Touch", k, Zero, FALSE)
           ELSE /\ items' = mapSet(items, k, Item(items[k].Object, now + d1))
                /\ ret' = Ret("Touch", k, items[k].Object, TRUE)
        /\ evicted' = <<>>
        /\ written' = [written EXCEPT ![k] = {}]
        /\ UNCHANGED <<conc, onEvicted, defaultExpiration, now>>

\* AddWithExpire that sets the item before it returns the error.
AddOverwriting(k, v, d) ==
    /\ items' = set(items, k, v, d, now)
    /\ ret' = Ret("Add", k, Zero, ~AddErr(items, k, now))
    /\ evicted' = <<>>
    /\ written' = [written EXCEPT ![k] = {}]
    /\ UNCHANGED <<conc, onEvicted, defaultExpiration, now>>

AddWithExpire(k, v, d) ==
    /\ IF AddErr(items, k, now)
       THEN /\ items' = items
            /\ ret' = Ret("Add", k, Zero, FALSE)
       ELSE /\ items' = set(items, k, v, d, now)
            /\ ret' = Ret("Add", k, Zero, TRUE)
    /\ evicted' = <<>>
    /\ written' = [written EXCEPT ![k] = {}]
    /\ UNCHANGED <<conc, onEvicted, defaultExpiration, now>>

ReplaceWithExpire(k, v, d) ==
    /\ IF ReplaceErr(items, k, now)
       THEN /\ items' = items
            /\ ret' = Ret("Replace", k, Zero, FALSE)
       ELSE /\ items' = set(items, k, v, d, now)
            /\ ret' = Ret("Replace", k, Zero, TRUE)
    /\ evicted' = <<>>
    /\ written' = [written EXCEPT ![k] = {}]
    /\ UNCHANGED <<conc, onEvicted, defaultExpiration, now>>

\* Get that deletes the entry it finds expired.
GetEvicting(k) ==
    /\ ret' = Ret("Get", k, GetReturn(items, k, now).v, GetReturn(items, k, now).ok)
    /\ items' = IF k \in DOMAIN items /\ expired(items[k], now) THEN mapDelete(items, k) ELSE items
    /\ evicted' = <<>>
    /\ UNCHANGED <<conc, onEvicted, defaultExpiration, now, written>>

Get(k) ==
    /\ ret' = Ret("Get", k, GetReturn(items, k, now).v, GetReturn(items, k, now).ok)
    /\ evicted' = <<>>
    /\ UNCHANGED <<conc, items, onEvicted, defaultExpiration, now, written>>

\* What Modify returned, and how many times it called f.
RetModify(k, v, ok, calls) == [op |-> "Modify", k |-> k, v |-> v, ok |-> ok, calls |-> calls]

\* Modify that stores the new value with no expiry.
ModifyDroppingExpiry(k, f) ==
    /\ k \in DOMAIN items => Apply(f, items[k].Object) \in Values
    /\ IF k \notin DOMAIN items
       THEN /\ items' = items
            /\ ret' = RetModify(k, Zero, FALSE, 0)
       ELSE IF items[k].Expiration > 0 /\ now > items[k].Expiration
       THEN /\ items' = items
            /\ ret' = RetModify(k, Zero, FALSE, 0)
       ELSE /\ items' = mapSet(items, k, Item(Apply(f, items[k].Object), 0))
            /\ ret' = RetModify(k, Apply(f, items[k].Object), TRUE, 1)
    /\ evicted' = <<>>
    /\ written' = [written EXCEPT ![k] = {}]
    /\ UNCHANGED <<conc, onEvicted, defaultExpiration, now>>

\* Modify(k, f); a call whose result would leave the values of the model is
\* not made.
Modify(k, f) ==
    /\ k \in DOMAIN items => Apply(f, items[k].Object) \in Values
    /\ IF k \notin DOMAIN items
       THEN /\ items' = items
            /\ ret' = RetModify(k, Zero, FALSE, 0)
       ELSE IF items[k].Expiration > 0 /\ now > items[k].Expiration
       THEN /\ items' = items
            /\ ret' = RetModify(k, Zero, FALSE, 0)
       ELSE /\ items' = mapSet(items, k, Item(Apply(f, items[k].Object), items[k].Expiration))
            /\ ret' = RetModify(k, Apply(f, items[k].Object), TRUE, 1)
    /\ evicted' = <<>>
    /\ written' = [written EXCEPT ![k] = {}]
    /\ UNCHANGED <<conc, onEvicted, defaultExpiration, now>>

Delete(k) ==
    LET r == delete(items, k, onEvicted)
    IN  /\ items' = r.items
        /\ evicted' = IF r.evicted THEN <<Call(k, r.v)>> ELSE <<>>
        /\ ret' = Ret("Delete", k, Zero, TRUE)
        /\ written' = [written EXCEPT ![k] = {}]
        /\ UNCHANGED <<conc, onEvicted, defaultExpiration, now>>

\* Rename that leaves the entry under src as well.
RenameCopying(src, dst) ==
    /\ IF src \notin DOMAIN items
       THEN /\ items' = items
            /\ ret' = Ret("Rename", src, Zero, FALSE)
       ELSE IF items[src].Expiration > 0 /\ now > items[src].Expiration
       THEN /\ items' = items
            /\ ret' = Ret("Rename", src, Zero, FALSE)
       ELSE /\ items' = mapSet(items, dst, items[src])
            /\ ret' = Ret("Rename", src, Zero, TRUE)
    /\ evicted' = <<>>
    /\ written' = [written EXCEPT ![src] = {}, ![dst] = {}]
    /\ UNCHANGED <<conc, onEvicted, defaultExpiration, now>>

Rename(src, dst) ==
    /\ IF src \notin DOMAIN items
       THEN /\ items' = items
            /\ ret' = Ret("Rename", src, Zero, FALSE)
       ELSE IF items[src].Expiration > 0 /\ now > items[src].Expiration
       THEN /\ items' = items
            /\ ret' = Ret("Rename", src, Zero, FALSE)
       ELSE /\ items' = mapSet(mapDelete(items, src), dst, items[src])
            /\ ret' = Ret("Rename", src, Zero, TRUE)
    /\ evicted' = <<>>
    /\ written' = [written EXCEPT ![src] = {}, ![dst] = {}]
    /\ UNCHANGED <<conc, onEvicted, defaultExpiration, now>>

Pop(k) ==
    /\ IF k \notin DOMAIN items
       THEN /\ items' = items
            /\ evicted' = <<>>
            /\ ret' = Ret("Pop", k, Zero, FALSE)
       ELSE IF items[k].Expiration > 0 /\ now > items[k].Expiration
       THEN /\ items' = items
            /\ evicted' = <<>>
            /\ ret' = Ret("Pop", k, Zero, FALSE)
       ELSE LET r == delete(items, k, onEvicted)
            IN  /\ items' = r.items
                /\ evicted' = IF r.evicted THEN <<Call(k, r.v)>> ELSE <<>>
                /\ ret' = Ret("Pop", k, items[k].Object, TRUE)
    /\ written' = [written EXCEPT ![k] = {}]
    /\ UNCHANGED <<conc, onEvicted, defaultExpiration, now>>

\* DeleteExpired that also removes the entries that expire at this instant.
DeleteExpiredEarly ==
    LET gone == {k \in DOMAIN items : items[k].Expiration > 0 /\ now >= items[k].Expiration}
        called == IF onEvicted THEN gone ELSE {}
    IN  /\ items' = [x \in (DOMAIN items) \ gone |-> items[x]]
        /\ \E o \in Orders(called) :
               evicted' = [i \in 1..Cardinality(called) |-> Call(o[i], items[o[i]].Object)]
        /\ ret' = Ret("DeleteExpired", NoKey, Zero, TRUE)
        /\ UNCHANGED <<conc, onEvicted, defaultExpiration, now, written>>

\* DeleteExpired, called by a caller or by the janitor on a tick of its
\* ticker; the map is ranged over in any order.
DeleteExpired ==
    LET gone == {k \in DOMAIN items : items[k].Expiration > 0 /\ now > items[k].Expiration}
        called == IF onEvicted THEN gone ELSE {}
    IN  /\ items' = [x \in (DOMAIN items) \ gone |-> items[x]]
        /\ \E o \in Orders(called) :
               evicted' = [i \in 1..Cardinality(called) |-> Call(o[i], items[o[i]].Object)]
        /\ ret' = Ret("DeleteExpired", NoKey, Zero, TRUE)
        /\ UNCHANGED <<conc, onEvicted, defaultExpiration, now, written>>

\* OnEvicted(f): f is a function (TRUE) or nil (FALSE).
OnEvicted(f) ==
    /\ onEvicted' = f
    /\ evicted' = <<>>
    /\ ret' = Ret("OnEvicted", NoKey, Zero, TRUE)
    /\ UNCHANGED <<conc, items, defaultExpiration, now, written>>

Reset ==
    /\ items' = [x \in {} |-> Item(Zero, 0)]
    /\ evicted' = <<>>
    /\ ret' = Ret("Reset", NoKey, Zero, TRUE)
    /\ written' = [k \in Keys |-> {}]
    /\ UNCHANGED <<conc, onEvicted, defaultExpiration, now>>

Next ==
    \/ Tick
    \/ \E k \in Keys, v \in Values, d \in SetDurations : SetWithExpire(k, v, d)
    \/ \E k \in Keys, d \in Durations : TouchWithExpire(k, d)
    \/ \E k \in Keys, v \in Values, d \in SetDurations : AddWithExpire(k, v, d)
    \/ \E k \in Keys, v \in Values, d \in SetDurations : ReplaceWithExpire(k, v, d)
    \/ \E k \in Keys : Get(k)
    \/ \E k \in Keys, f \in Fns : Modify(k, f)
    \/ \E k \in Keys : Delete(k)
    \/ \E src \in Keys, dst \in Keys : Rename(src, dst)
    \/ \E k \in Keys : Pop(k)
    \/ DeleteExpired
    \/ \E f \in BOOLEAN : OnEvicted(f)
    \/ Reset

Spec == Init /\ [][Next]_vars

(* ------------------------------------------------------------------ *)
(* The operations that read, one caller at a time                      *)
(* ------------------------------------------------------------------ *)
\* What cache.GetStale returns at clock time t: (value, expired, ok).
GetStaleReturn(m, k, t) ==
    IF k \notin DOMAIN m THEN [v |-> Zero, expired |-> FALSE, ok |-> FALSE]
    ELSE [v |-> m[k].Object,
          expired |-> m[k].Expiration > 0 /\ t > m[k].Expiration,
          ok |-> TRUE]

\* GetWithExpire without the check of the expiry against the clock.
GetWithExpireUnchecked(m, k, t) ==
    IF k \notin DOMAIN m THEN [v |-> Zero, e |-> 0, ok |-> FALSE]
    ELSE IF m[k].Expiration > 0
    THEN [v |-> m[k].Object, e |-> m[k].Expiration, ok |-> TRUE]
    ELSE [v |-> m[k].Object, e |-> 0, ok |-> TRUE]

\* What cache.GetWithExpire returns at clock time t: (value, time, ok), where
\* the time is the stored expiry, or 0 for the zero time.Time.
GetWithExpireReturn(m, k, t) ==
    IF k \notin DOMAIN m THEN [v |-> Zero, e |-> 0, ok |-> FALSE]
    ELSE IF m[k].Expiration > 0
    THEN IF t > m[k].Expiration
         THEN [v |-> Zero, e |-> 0, ok |-> FALSE]
         ELSE [v |-> m[k].Object, e |-> m[k].Expiration, ok |-> TRUE]
    ELSE [v |-> m[k].Object, e |-> 0, ok |-> TRUE]

\* What cache.Items returns at clock time t: a copy of the unexpired entries.
ItemsReturn(m, t) ==
    [x \in {k \in DOMAIN m : ~(m[k].Expiration > 0 /\ t > m[k].Expiration)} |-> m[x]]

\* The keys cache.Keys returns at clock time t; it returns them in any order.
KeysReturn(m, t) == {k \in DOMAIN m : ~(m[k].Expiration > 0 /\ t > m[k].Expiration)}

\* What cache.ItemCount returns: len(c.items).
ItemCountReturn(m) == Cardinality(DOMAIN m)

\* What a reading operation returned: r is its result.
RetOf(op, k, r) == [op |-> op, k |-> k, r |-> r]

GetStale(k) ==
    /\ ret' = RetOf("GetStale", k, GetStaleReturn(items, k, now))
    /\ evicted' = <<>>
    /\ UNCHANGED <<conc, items, onEvicted, defaultExpiration, now, written>>

GetWithExpire(k) ==
    /\ ret' = RetOf("GetWithExpire", k, GetWithExpireReturn(items, k, now))
    /\ evicted' = <<>>
    /\ UNCHANGED <<conc, items, onEvicted, defaultExpiration, now, written>>

\* What Items returned: the map r, and whether r is the map object c.items
\* itself (shared) or one made by the call.
RetItems(r, shared) == [op |-> "Items", k |-> NoKey, r |-> r, shared |-> shared]

\* Items that returns c.items itself.
ItemsShared ==
    /\ ret' = RetItems(items, TRUE)
    /\ evicted' = <<>>
    /\ UNCHANGED <<conc, items, onEvicted, defaultExpiration, now, written>>

\* cache.Items: m := make(map[K]Item[V], len(c.items)), filled in the range.
Items ==
    /\ ret' = RetItems(ItemsReturn(items, now), FALSE)
    /\ evicted' = <<>>
    /\ UNCHANGED <<conc, items, onEvicted, defaultExpiration, now, written>>

\* The caller of Items writes to the map it got, m[k] = Item{v, 0}, or
\* deletes from it, delete(m, k): a write to a Go map is a write to the map
\* object, so it shows in c.items exactly when the two are the same object.
MutateReturned(k, v, del) ==
    LET w(m) == IF del THEN mapDelete(m, k) ELSE mapSet(m, k, Item(v, 0))
    IN  /\ ret.op = "Items"
        /\ ret' = [op |-> "MutateItems", k |-> k, r |-> w(ret.r), shared |-> ret.shared]
        /\ items' = IF ret.shared THEN w(items) ELSE items
        /\ evicted' = <<>>
        /\ UNCHANGED <<conc, onEvicted, defaultExpiration, now, written>>

\* cache.Keys
KeysList ==
    /\ \E o \in Orders(KeysReturn(items, now)) : ret' = RetOf("Keys", NoKey, o)
    /\ evicted' = <<>>
    /\ UNCHANGED <<conc, items, onEvicted, defaultExpiration, now, written>>

ItemCount ==
    /\ ret' = RetOf("ItemCount", NoKey, ItemCountReturn(items))
    /\ evicted' = <<>>
    /\ UNCHANGED <<conc, items, onEvicted, defaultExpiration, now, written>>

\* The reading operations, with the writers that bring the cache into the
\* states they are called in.
NextRead ==
    \/ Tick
    \/ \E k \in Keys, v \in Values, d \in Durations : SetWithExpire(k, v, d)
    \/ \E k \in Keys : Delete(k)
    \/ DeleteExpired
    \/ \E f \in BOOLEAN : OnEvicted(f)
    \/ \E k \in Keys : Get(k)
    \/ \E k \in Keys : GetStale(k)
    \/ \E k \in Keys : GetWithExpire(k)
    \/ Items
    \/ \E k \in Keys, v \in Values, del \in BOOLEAN : MutateReturned(k, v, del)
    \/ KeysList
    \/ ItemCount

SpecRead == Init /\ [][NextRead]_vars

(* ------------------------------------------------------------------ *)
(* cache.mu, a sync.RWMutex                                            *)
(* ------------------------------------------------------------------ *)
\* Lock blocks until no thread holds the lock for reading or writing.
Lock(t) ==
    /\ mu.writer = {} /\ mu.readers = {}
    /\ mu' = [mu EXCEPT !.writer = {t}]

Unlock(t) == mu' = [mu EXCEPT !.writer = @ \ {t}]

\* RLock blocks while a thread holds the lock for writing.
RLock(t) ==
    /\ mu.writer = {}
    /\ mu' = [mu EXCEPT !.readers = @ \cup {t}]

RUnlock(t) == mu' = [mu EXCEPT !.readers = @ \ {t}]

Goto(t, l) == pc' = [pc EXCEPT ![t] = l]

(* ------------------------------------------------------------------ *)
(* Concurrent Modify and Get                                           *)
(* ------------------------------------------------------------------ *)
\* The key the callers of SpecModify work on, and the thread that calls Get.
ModKey == "a"
Getter == NumThreads + 1

\* The cache holds ModKey with the value 0, with or without an expiry; every
\* thread of Threads is about to call Modify(ModKey, v -> v + 1).
InitModify ==
    /\ \E e \in {0, Now0 + 1} : items = [x \in {ModKey} |-> Item(0, e)]
    /\ onEvicted = FALSE
    /\ defaultExpiration = newCache(DefaultExpiration)
    /\ now = Now0
    /\ evicted = <<>>
    /\ ret = Ret("New", NoKey, Zero, TRUE)
    /\ written = [k \in Keys |-> {}]
    /\ pc = [t \in Threads \cup {Getter} |-> "start"]
    /\ mu = Unlocked
    /\ loc = [t \in Threads \cup {Getter} |-> NoLocals]
    /\ callback = "none"
    /\ getOrSetOnce = NewOnce
    /\ forgetters = {}

store == <<items, onEvicted, defaultExpiration, now, evicted, ret, written>>

\* Modify without c.mu.Lock().
ModifyNoLock(t) ==
    /\ pc[t] = "start"
    /\ Goto(t, "locked")
    /\ UNCHANGED <<mu, loc, callback, gate, store>>

\* c.mu.Lock()
ModifyLock(t) ==
    /\ pc[t] = "start"
    /\ Lock(t)
    /\ Goto(t, "locked")
    /\ UNCHANGED <<loc, callback, gate, store>>

\* item, ok := c.items[k], and the two early returns.
ModifyRead(t) ==
    /\ pc[t] = "locked"
    /\ IF ModKey \notin DOMAIN items
       THEN /\ loc' = [loc EXCEPT ![t] = [item |-> Item(Zero, 0), ok |-> FALSE, v |-> Zero]]
            /\ Goto(t, "unlock")
       ELSE IF items[ModKey].Expiration > 0 /\ now > items[ModKey].Expiration
       THEN /\ loc' = [loc EXCEPT ![t] = [item |-> items[ModKey], ok |-> FALSE, v |-> Zero]]
            /\ Goto(t, "unlock")
       ELSE /\ loc' = [loc EXCEPT ![t] = [item |-> items[ModKey], ok |-> TRUE, v |-> Zero]]
            /\ Goto(t, "apply")
    /\ UNCHANGED <<mu, callback, gate, store>>

\* item.Object = f(item.Object); c.items[k] = item; return item.Object, true
ModifyWrite(t) ==
    LET item == Item(Apply("inc", loc[t].item.Object), loc[t].item.Expiration)
    IN  /\ pc[t] = "apply"
        /\ items' = mapSet(items, ModKey, item)
        /\ loc' = [loc EXCEPT ![t] = [item |-> item, ok |-> TRUE, v |-> item.Object]]
        /\ Goto(t, "unlock")
        /\ UNCHANGED <<mu, callback, gate, onEvicted, defaultExpiration, now, evicted, ret, written>>

\* defer c.mu.Unlock()
ModifyUnlock(t) ==
    /\ pc[t] = "unlock"
    /\ Unlock(t)
    /\ Goto(t, "done")
    /\ UNCHANGED <<loc, callback, gate, store>>

\* c.mu.RLock()
GetRLock(t) ==
    /\ pc[t] = "start"
    /\ RLock(t)
    /\ Goto(t, "rlocked")
    /\ UNCHANGED <<loc, callback, gate, store>>

\* The body of Get.
GetRead(t) ==
    /\ pc[t] = "rlocked"
    /\ loc' = [loc EXCEPT ![t] = [item |-> @.item, ok |-> GetReturn(items, ModKey, now).ok,
                                  v |-> GetReturn(items, ModKey, now).v]]
    /\ Goto(t, "runlock")
    /\ UNCHANGED <<mu, callback, gate, store>>

\* defer c.mu.RUnlock(); the caller then calls Get again.
GetRUnlock(t) ==
    /\ pc[t] = "runlock"
    /\ RUnlock(t)
    /\ Goto(t, "start")
    /\ UNCHANGED <<loc, callback, gate, store>>

NextModify ==
    \/ Tick
    \/ \E t \in Threads : ModifyLock(t)
    \/ \E t \in Threads : ModifyRead(t)
    \/ \E t \in Threads : ModifyWrite(t)
    \/ \E t \in Threads : ModifyUnlock(t)
    \/ GetRLock(Getter)
    \/ GetRead(Getter)
    \/ GetRUnlock(Getter)

SpecModify == InitModify /\ [][NextModify]_vars

(* ------------------------------------------------------------------ *)
(* The functions given to Modify, DeleteFunc and Find                  *)
(* ------------------------------------------------------------------ *)
\* What the function given to Modify, DeleteFunc or Find does besides
\* computing its result: nothing, or a call of c.Get or of c.Set on the
\* same cache.
FnBodies == {"pure", "Get", "Set"}
FnCalls ==
    {[op |-> "Modify", k |-> k, fn |-> b] : k \in Keys, b \in FnBodies}
        \cup {[op |-> op, k |-> NoKey, fn |-> b] : op \in {"DeleteFunc", "Find"}, b \in FnBodies}

\* The locals of the call: rest are the entries the range has not reached,
\* cur is the entry the function is called with, keys are the keys Find
\* collects and m is the map DeleteFunc returns.
FnLocals(op, k, b) ==
    [op |-> op, k |-> k, fn |-> b, rest |-> {}, cur |-> NoKey, keys |-> {}, m |-> NoItems,
     item |-> Item(Zero, 0), ok |-> FALSE, v |-> Zero]

\* The cache holds two entries that never expire; every thread of Threads
\* is about to call Modify, DeleteFunc or Find and another thread calls
\* Get(ModKey) again and again.
InitFn ==
    /\ items = [x \in Keys |-> Item(0, 0)]
    /\ onEvicted = FALSE
    /\ defaultExpiration = newCache(DefaultExpiration)
    /\ now = Now0
    /\ evicted = <<>>
    /\ ret = Ret("New", NoKey, Zero, TRUE)
    /\ written = [k \in Keys |-> {}]
    /\ pc = [t \in Threads \cup {Getter} |-> "start"]
    /\ mu = Unlocked
    /\ loc = [t \in Threads \cup {Getter} |-> FnLocals("none", NoKey, "pure")]
    /\ callback = "none"
    /\ getOrSetOnce = NewOnce
    /\ forgetters = {}

\* A thread calls Modify(k, f), DeleteFunc(filter) or Find(filter).
FnCall(t, c) ==
    /\ pc[t] = "start"
    /\ loc' = [loc EXCEPT ![t] = FnLocals(c.op, c.k, c.fn)]
    /\ Goto(t, "lock")
    /\ UNCHANGED <<mu, callback, gate, store>>

\* Modify, DeleteFunc and Find that take c.mu.RLock().
FnRLock(t) ==
    /\ pc[t] = "lock"
    /\ RLock(t)
    /\ loc' = [loc EXCEPT ![t].rest = IF loc[t].op = "Modify" THEN {loc[t].k} ELSE DOMAIN items]
    /\ Goto(t, "range")
    /\ UNCHANGED <<callback, gate, store>>

\* c.mu.Lock(), the first statement of Modify, DeleteFunc and Find.
FnLock(t) ==
    /\ pc[t] = "lock"
    /\ Lock(t)
    /\ loc' = [loc EXCEPT ![t].rest = IF loc[t].op = "Modify" THEN {loc[t].k} ELSE DOMAIN items]
    /\ Goto(t, "range")
    /\ UNCHANGED <<callback, gate, store>>

\* Modify: item, ok := c.items[k] and the two early returns. DeleteFunc and
\* Find: the range reaches the next entry, or ends.
FnRange(t) ==
    LET here == {k \in loc[t].rest \cap DOMAIN items :
                    loc[t].op = "Modify" => ~(items[k].Expiration > 0 /\ now > items[k].Expiration)}
    IN  /\ pc[t] = "range"
        /\ IF here = {}
           THEN /\ loc' = [loc EXCEPT ![t].rest = {}]
                /\ Goto(t, "unlock")
           ELSE \E k \in here :
                    /\ loc' = [loc EXCEPT ![t].rest = @ \ {k}, ![t].cur = k,
                                          ![t].item = items[k]]
                    /\ Goto(t, "fn")
        /\ UNCHANGED <<mu, callback, gate, store>>

\* f(item.Object), or filter(k, v), runs and returns. A function that calls
\* c.Get needs c.mu.RLock() and one that calls c.Set needs c.mu.Lock(),
\* inside the call that called the function.
FnRun(t) ==
    /\ pc[t] = "fn"
    /\ IF loc[t].fn = "Get"
       THEN /\ mu.writer = {}
            /\ items' = items
       ELSE IF loc[t].fn = "Set"
       THEN /\ mu.writer = {} /\ mu.readers = {}
            /\ items' = set(items, loc[t].cur, 1, DefaultExpiration, now)
       ELSE items' = items
    /\ Goto(t, "after")
    /\ UNCHANGED <<mu, loc, callback, gate, onEvicted, defaultExpiration, now, evicted, ret, written>>

\* The function has returned. Modify: c.items[k] = item. DeleteFunc, the
\* filter said (true, false): m[k] = Item{...}; c.delete(k). Find, the
\* filter said (true, false): keys = append(keys, k).
FnAfter(t) ==
    LET k == loc[t].cur
        item == Item(Apply("inc", loc[t].item.Object), loc[t].item.Expiration)
    IN  /\ pc[t] = "after"
        /\ IF loc[t].op = "Modify"
           THEN /\ items' = mapSet(items, k, item)
                /\ loc' = [loc EXCEPT ![t].ok = TRUE, ![t].v = item.Object]
           ELSE IF loc[t].op = "DeleteFunc"
           THEN /\ items' = delete(items, k, onEvicted).items
                /\ loc' = [loc EXCEPT ![t].m = mapSet(@, k, loc[t].item)]
           ELSE /\ items' = items
                /\ loc' = [loc EXCEPT ![t].keys = @ \cup {k}]
        /\ Goto(t, IF loc[t].op = "Modify" THEN "unlock" ELSE "range")
        /\ UNCHANGED <<mu, callback, gate, onEvicted, defaultExpiration, now, evicted, ret, written>>

\* c.mu.Unlock(), deferred in Modify and Find
FnUnlock(t) ==
    /\ pc[t] = "unlock"
    /\ Unlock(t)
    /\ Goto(t, "done")
    /\ UNCHANGED <<loc, callback, gate, store>>

FnStep(t) ==
    \/ \E c \in FnCalls : FnCall(t, c)
    \/ FnLock(t)
    \/ FnRange(t)
    \/ FnRun(t)
    \/ FnAfter(t)
    \/ FnUnlock(t)

NextFn ==
    \/ \E t \in Threads : FnStep(t)
    \/ GetRLock(Getter)
    \/ GetRead(Getter)
    \/ GetRUnlock(Getter)

SpecFn == InitFn /\ [][NextFn]_vars

(* ------------------------------------------------------------------ *)
(* Concurrent GetOrSet on one key                                      *)
(* ------------------------------------------------------------------ *)
GateKey == "a"

GateLocals ==
    [k |-> GateKey, item |-> Item(Zero, 0), ok |-> FALSE, absent |-> FALSE, hit |-> FALSE,
     populated |-> FALSE, ran |-> FALSE, result |-> Zero]

\* The populate function of caller t: it returns a value no other caller's
\* function returns, and no expiry.
Populate(t) == [v |-> t, d |-> NoExpiration]

InitGate ==
    /\ items = [x \in {} |-> Item(Zero, 0)]
    /\ onEvicted = FALSE
    /\ callback = "none"
    /\ getOrSetOnce = NewOnce
    /\ forgetters = {}
    /\ \E de \in DeArgs : defaultExpiration = newCache(de)
    /\ now = Now0
    /\ evicted = <<>>
    /\ ret = Ret("New", NoKey, Zero, TRUE)
    /\ written = [k \in Keys |-> {}]
    /\ pc = [t \in Threads |-> "start"]
    /\ mu = Unlocked
    /\ loc = [t \in Threads |-> GateLocals]

\* GetOrSet is called: c.mu.RLock()
GetOrSetRLock(t) ==
    /\ pc[t] = "start"
    /\ RLock(t)
    /\ loc' = [loc EXCEPT ![t].absent = loc[t].k \notin DOMAIN items]
    /\ Goto(t, "read")
    /\ UNCHANGED <<callback, gate, store>>

\* item, ok := c.items[k]
GetOrSetRead(t) ==
    /\ pc[t] = "read"
    /\ loc' = [loc EXCEPT ![t].ok = loc[t].k \in DOMAIN items,
                          ![t].item = IF loc[t].k \in DOMAIN items
                                      THEN items[loc[t].k] ELSE Item(Zero, 0)]
    /\ Goto(t, "runlock")
    /\ UNCHANGED <<mu, callback, gate, store>>

\* GetOrSet that calls Do whether or not it found the key.
GetOrSetAlwaysDo(t) ==
    /\ pc[t] = "runlock"
    /\ RUnlock(t)
    /\ Goto(t, "do")
    /\ UNCHANGED <<loc, callback, gate, store>>

\* c.mu.RUnlock() and the test of ok and of the expiry; hit records that
\* the test found the key present and unexpired.
GetOrSetRUnlock(t) ==
    /\ pc[t] = "runlock"
    /\ RUnlock(t)
    /\ IF ~loc[t].ok \/ (loc[t].item.Expiration > 0 /\ now > loc[t].item.Expiration)
       THEN /\ Goto(t, "do")
            /\ loc' = loc
       ELSE /\ Goto(t, "return")
            /\ loc' = [loc EXCEPT ![t].hit = TRUE]
    /\ UNCHANGED <<callback, gate, store>>

\* once.Do: o.m.Lock()
DoLock(t) ==
    /\ pc[t] = "do"
    /\ getOrSetOnce.m = {}
    /\ getOrSetOnce' = [getOrSetOnce EXCEPT !.m = {t}]
    /\ Goto(t, "doCheck")
    /\ UNCHANGED <<mu, loc, callback, forgetters, store>>

\* once.Do: the key is done, so Do unlocks and returns false.
DoDone(t) ==
    /\ pc[t] = "doCheck"
    /\ loc[t].k \in getOrSetOnce.done
    /\ getOrSetOnce' = [getOrSetOnce EXCEPT !.m = {}]
    /\ loc' = [loc EXCEPT ![t].ran = FALSE]
    /\ Goto(t, "reread")
    /\ UNCHANGED <<mu, callback, forgetters, store>>

\* GetOrSet that takes c.mu.Lock() before it calls f().
DoPopulateLocked(t) ==
    /\ pc[t] = "doCheck"
    /\ loc[t].k \notin getOrSetOnce.done
    /\ Lock(t)
    /\ getOrSetOnce' = [getOrSetOnce EXCEPT !.calls = @ \cup {[by |-> t, key |-> loc[t].k]}]
    /\ loc' = [loc EXCEPT ![t].populated = TRUE]
    /\ Goto(t, "f")
    /\ UNCHANGED <<callback, forgetters, store>>

\* once.Do: the key is not done, so Do calls the function, which calls f().
DoPopulate(t) ==
    /\ pc[t] = "doCheck"
    /\ loc[t].k \notin getOrSetOnce.done
    /\ getOrSetOnce' = [getOrSetOnce EXCEPT !.calls = @ \cup {[by |-> t, key |-> loc[t].k]}]
    /\ loc' = [loc EXCEPT ![t].populated = TRUE]
    /\ Goto(t, "f")
    /\ UNCHANGED <<mu, callback, forgetters, store>>

\* v, d := f(): f returns.
PopulateReturn(t) ==
    /\ pc[t] = "f"
    /\ Goto(t, "setLock")
    /\ UNCHANGED <<mu, loc, callback, gate, store>>

\* f panics: the panic unwinds Do, whose deferred functions set
\* o.done[key] and unlock o.m, and then GetOrSet, which has no deferred
\* function and does not reach "if ran".
PopulatePanic(t) ==
    /\ pc[t] = "f"
    /\ getOrSetOnce' = [getOrSetOnce EXCEPT !.m = {}, !.done = @ \cup {loc[t].k}]
    /\ Goto(t, "panicked")
    /\ UNCHANGED <<mu, loc, callback, forgetters, store>>

\* c.mu.Lock()
PopulateLock(t) ==
    /\ pc[t] = "setLock"
    /\ Lock(t)
    /\ Goto(t, "set")
    /\ UNCHANGED <<loc, callback, gate, store>>

\* c.set(k, v, d)
PopulateSet(t) ==
    /\ pc[t] = "set"
    /\ items' = set(items, loc[t].k, Populate(t).v, Populate(t).d, now)
    /\ Goto(t, "setUnlock")
    /\ UNCHANGED <<mu, loc, callback, gate, onEvicted, defaultExpiration, now, evicted, ret, written>>

\* c.mu.Unlock(); item.Object = v
PopulateUnlock(t) ==
    /\ pc[t] = "setUnlock"
    /\ Unlock(t)
    /\ loc' = [loc EXCEPT ![t].item.Object = Populate(t).v]
    /\ Goto(t, "doReturn")
    /\ UNCHANGED <<callback, gate, store>>

\* once.Do that does not mark the key as done when the function returned.
DoReturnUnmarked(t) ==
    /\ pc[t] = "doReturn"
    /\ getOrSetOnce' = [getOrSetOnce EXCEPT !.m = {}]
    /\ loc' = [loc EXCEPT ![t].ran = TRUE]
    /\ Goto(t, "spawn")
    /\ UNCHANGED <<mu, callback, forgetters, store>>

\* once.Do returns true: the deferred o.done[key] = struct{}{} and
\* o.m.Unlock()
DoReturn(t) ==
    /\ pc[t] = "doReturn"
    /\ getOrSetOnce' = [getOrSetOnce EXCEPT !.m = {}, !.done = @ \cup {loc[t].k}]
    /\ loc' = [loc EXCEPT ![t].ran = TRUE]
    /\ Goto(t, "spawn")
    /\ UNCHANGED <<mu, callback, forgetters, store>>

\* go func() { time.Sleep(5 * time.Millisecond); getOrSetOnce.Forget(k) }()
Spawn(t) ==
    /\ pc[t] = "spawn"
    /\ forgetters' = forgetters \cup {[by |-> t, key |-> loc[t].k, wake |-> now + SleepTicks]}
    /\ Goto(t, "return")
    /\ UNCHANGED <<mu, loc, callback, getOrSetOnce, store>>

\* Do returned false: c.mu.RLock()
RereadRLock(t) ==
    /\ pc[t] = "reread"
    /\ RLock(t)
    /\ Goto(t, "rereadRead")
    /\ UNCHANGED <<loc, callback, gate, store>>

\* item, _ = c.items[k]; c.mu.RUnlock()
RereadRead(t) ==
    /\ pc[t] = "rereadRead"
    /\ RUnlock(t)
    /\ loc' = [loc EXCEPT ![t].item = IF loc[t].k \in DOMAIN items
                                      THEN items[loc[t].k] ELSE Item(Zero, 0)]
    /\ Goto(t, "return")
    /\ UNCHANGED <<callback, gate, store>>

\* return item.Object
GetOrSetReturn(t) ==
    /\ pc[t] = "return"
    /\ loc' = [loc EXCEPT ![t].result = loc[t].item.Object]
    /\ Goto(t, "done")
    /\ UNCHANGED <<mu, callback, gate, store>>

\* A goroutine started by GetOrSet has slept and calls once.Forget.
Forget(g) ==
    /\ g \in forgetters
    /\ now >= g.wake
    /\ getOrSetOnce.m = {}
    /\ getOrSetOnce' = [getOrSetOnce EXCEPT !.done = @ \ {g.key},
                                            !.calls = {c \in @ : c.key # g.key}]
    /\ forgetters' = forgetters \ {g}
    /\ UNCHANGED <<pc, mu, loc, callback, store>>

GetOrSetStep(t) ==
    \/ GetOrSetRLock(t)
    \/ GetOrSetRead(t)
    \/ GetOrSetRUnlock(t)
    \/ DoLock(t)
    \/ DoDone(t)
    \/ DoPopulate(t)
    \/ PopulateReturn(t)
    \/ PopulatePanic(t)
    \/ PopulateLock(t)
    \/ PopulateSet(t)
    \/ PopulateUnlock(t)
    \/ DoReturn(t)
    \/ Spawn(t)
    \/ RereadRLock(t)
    \/ RereadRead(t)
    \/ GetOrSetReturn(t)

NextGate ==
    \/ Tick
    \/ \E t \in Threads : GetOrSetStep(t)
    \/ \E g \in forgetters : Forget(g)

SpecGate == InitGate /\ [][NextGate]_vars

(* ------------------------------------------------------------------ *)
(* Concurrent GetOrSet on the same and on different keys               *)
(* ------------------------------------------------------------------ *)
\* Each caller calls GetOrSet with a key of its own choice, so that two
\* callers use the same key or two different ones; the cache is empty.
InitKeys ==
    /\ items = [x \in {} |-> Item(Zero, 0)]
    /\ onEvicted = FALSE
    /\ callback = "none"
    /\ getOrSetOnce = NewOnce
    /\ forgetters = {}
    /\ defaultExpiration = newCache(NoExpiration)
    /\ now = Now0
    /\ evicted = <<>>
    /\ ret = Ret("New", NoKey, Zero, TRUE)
    /\ written = [k \in Keys |-> {}]
    /\ pc = [t \in Threads |-> "start"]
    /\ mu = Unlocked
    /\ \E ks \in [Threads -> Keys] :
           loc = [t \in Threads |-> [GateLocals EXCEPT !.k = ks[t]]]

\* The positions of a caller inside the function that once.Do invokes:
\* in f itself, and in the rest of the function, which stores f's result.
InF(t) == pc[t] = "f"
InDoFunc(t) == pc[t] \in {"f", "setLock", "set", "setUnlock", "doReturn"}

SpecKeys == InitKeys /\ [][NextGate]_vars

(* ------------------------------------------------------------------ *)
(* GetOrSet while other callers use the cache                          *)
(* ------------------------------------------------------------------ *)
\* The value stored under the key before GetOrSet is called: one that no
\* populate function returns and that is not the zero value.
Stored == NumThreads + 1

\* The maps GetOrSet is called on: the key absent, present and never
\* expiring, present and expiring after the next tick of the clock.
GateStock ==
    {NoItems, [x \in {GateKey} |-> Item(Stored, 0)], [x \in {GateKey} |-> Item(Stored, Now0)]}

InitPopulate ==
    /\ items \in GateStock
    /\ onEvicted = FALSE
    /\ callback = "none"
    /\ getOrSetOnce = NewOnce
    /\ forgetters = {}
    /\ defaultExpiration = newCache(NoExpiration)
    /\ now = Now0
    /\ evicted = <<>>
    /\ ret = Ret("New", NoKey, Zero, TRUE)
    /\ written = [k \in Keys |-> {}]
    /\ pc = [t \in Threads |-> "start"]
    /\ mu = Unlocked
    /\ loc = [t \in Threads |-> GateLocals]

\* Some caller's populate function is running.
Populating == \E t \in Threads : pc[t] = "f"

\* Another caller runs Set, Delete or Modify, which take c.mu.Lock(), while
\* a populate function is running.
CallerWrites ==
    /\ Populating
    /\ mu.writer = {} /\ mu.readers = {}
    /\ \/ \E k \in Keys, v \in Values : SetWithExpire(k, v, NoExpiration)
       \/ \E k \in Keys : Delete(k)
       \/ \E k \in Keys : Modify(k, "zero")

\* Another caller runs Get, which takes c.mu.RLock(), while a populate
\* function is running.
CallerReads ==
    /\ Populating
    /\ mu.writer = {}
    /\ \E k \in Keys : Get(k)

NextPopulate ==
    \/ Tick
    \/ \E t \in Threads : GetOrSetStep(t)
    \/ \E g \in forgetters : Forget(g)
    \/ CallerWrites
    \/ CallerReads

SpecPopulate == InitPopulate /\ [][NextPopulate]_vars

(* ------------------------------------------------------------------ *)
(* GetOrSet on two cache instances                                     *)
(* ------------------------------------------------------------------ *)
\* A goroutine that makes a cache of its own, c2 := New(...), and calls
\* c2.GetOrSet with the key string the other callers use on their cache.
\* Nobody else has c2, so c2.mu is free whenever the peer takes it, and each
\* of the peer's locked sections is one step.
Peer == NumThreads + 5

PeerLocals ==
    [k |-> GateKey, item |-> Item(Zero, 0), ok |-> FALSE, absent |-> FALSE, hit |-> FALSE,
     populated |-> FALSE, ran |-> FALSE, result |-> Zero, c2 |-> NoItems]

InitShared ==
    /\ items = NoItems
    /\ onEvicted = FALSE
    /\ callback = "none"
    /\ getOrSetOnce = NewOnce
    /\ forgetters = {}
    /\ defaultExpiration = newCache(NoExpiration)
    /\ now = Now0
    /\ evicted = <<>>
    /\ ret = Ret("New", NoKey, Zero, TRUE)
    /\ written = [k \in Keys |-> {}]
    /\ pc = [t \in Threads \cup {Peer} |-> "start"]
    /\ mu = Unlocked
    /\ loc = [t \in Threads \cup {Peer} |-> IF t = Peer THEN PeerLocals ELSE GateLocals]

\* c2.GetOrSet: the read of c2.items[k] under c2.mu.RLock() and the test of
\* ok and of the expiry.
PeerRead ==
    LET c2 == loc[Peer].c2
        ok == loc[Peer].k \in DOMAIN c2
        item == IF ok THEN c2[loc[Peer].k] ELSE Item(Zero, 0)
        miss == ~ok \/ (item.Expiration > 0 /\ now > item.Expiration)
    IN  /\ pc[Peer] = "start"
        /\ loc' = [loc EXCEPT ![Peer].absent = ~ok, ![Peer].ok = ok,
                              ![Peer].item = item, ![Peer].hit = ~miss]
        /\ Goto(Peer, IF miss THEN "do" ELSE "return")
        /\ UNCHANGED <<mu, callback, gate, store>>

\* c2.mu.Lock(); c2.set(k, v, d); c2.mu.Unlock(); item.Object = v
PeerSet ==
    /\ pc[Peer] = "setLock"
    /\ loc' = [loc EXCEPT ![Peer].c2 = set(@, loc[Peer].k, Populate(Peer).v, Populate(Peer).d, now),
                          ![Peer].item.Object = Populate(Peer).v]
    /\ Goto(Peer, "doReturn")
    /\ UNCHANGED <<mu, callback, gate, store>>

\* Do returned false: item, _ = c2.items[k] under c2.mu.RLock()
PeerReread ==
    /\ pc[Peer] = "reread"
    /\ loc' = [loc EXCEPT ![Peer].item = IF loc[Peer].k \in DOMAIN loc[Peer].c2
                                         THEN loc[Peer].c2[loc[Peer].k] ELSE Item(Zero, 0)]
    /\ Goto(Peer, "return")
    /\ UNCHANGED <<mu, callback, gate, store>>

\* The steps of c2.GetOrSet: those on the package's getOrSetOnce are the
\* steps every caller of GetOrSet takes.
PeerStep ==
    \/ PeerRead
    \/ DoLock(Peer)
    \/ DoDone(Peer)
    \/ DoPopulate(Peer)
    \/ PopulateReturn(Peer)
    \/ PeerSet
    \/ DoReturn(Peer)
    \/ Spawn(Peer)
    \/ PeerReread
    \/ GetOrSetReturn(Peer)

NextShared ==
    \/ Tick
    \/ \E t \in Threads : GetOrSetStep(t)
    \/ \E g \in forgetters : Forget(g)
    \/ PeerStep

SpecShared == InitShared /\ [][NextShared]_vars

(* ------------------------------------------------------------------ *)
(* Keyset.Get, Keyset.Delete and Keyset.Set                            *)
(* ------------------------------------------------------------------ *)
\* The keysets the callers make, c.Keyset(k...), and the values they pass
\* to Keyset.Set, one per key.
KeysetKeys == {<<"a", "b">>, <<"b">>}
KeysetCalls ==
    {[op |-> op, keys |-> ks, vals |-> <<>>] : op \in {"Get", "Delete"}, ks \in KeysetKeys}
        \cup {[op |-> "Set", keys |-> ks, vals |-> [i \in 1..Len(ks) |-> 1]] : ks \in KeysetKeys}

\* The locals of a Keyset method: i is the index of the range over the
\* keys, got is ret of Keyset.Get, called are the calls of the callback made
\* so far and arg the key of the call being made; snaps are the maps the
\* cache has held since Keyset.Get took the lock.
KsLocals(op, ks, vs) ==
    [op |-> op, keys |-> ks, vals |-> vs, i |-> 1, got |-> <<>>, called |-> <<>>,
     arg |-> NoKey, snaps |-> {}]

\* The maps the keyset methods are called on: "b" expired, "b" never
\* expiring, "b" absent.
KeysetStock ==
    {[x \in Keys |-> IF x = "a" THEN Item(0, 0) ELSE Item(1, Now0 - 1)],
     [x \in Keys |-> IF x = "a" THEN Item(0, 0) ELSE Item(1, 0)],
     [x \in {"a"} |-> Item(0, 0)]}

InitKeyset ==
    /\ items \in KeysetStock
    /\ onEvicted \in BOOLEAN
    /\ callback \in {"none", "Set"}
    /\ getOrSetOnce = NewOnce
    /\ forgetters = {}
    /\ defaultExpiration = newCache(DefaultExpiration)
    /\ now = Now0
    /\ evicted = <<>>
    /\ ret = Ret("New", NoKey, Zero, TRUE)
    /\ written = [k \in Keys |-> {}]
    /\ pc = [t \in Threads |-> "start"]
    /\ mu = Unlocked
    /\ loc = [t \in Threads |-> KsLocals("none", <<>>, <<>>)]

\* The locals after the map has become m2: every Keyset.Get that holds the
\* lock has one more map in snaps.
Snap(l, m2) ==
    [u \in DOMAIN l |->
        IF pc[u] = "loop" /\ l[u].op = "Get"
        THEN [l[u] EXCEPT !.snaps = @ \cup {m2}] ELSE l[u]]

\* A thread calls a method of a keyset. Get and Set call m.Keys() first;
\* Delete ranges over m.keys.
KsCall(t, c) ==
    /\ pc[t] = "start"
    /\ loc' = [loc EXCEPT ![t] = KsLocals(c.op, c.keys, c.vals)]
    /\ Goto(t, IF c.op = "Delete" THEN "rlock" ELSE "keys")
    /\ UNCHANGED <<mu, callback, gate, store>>

\* keys := m.Keys(): RLock, return m.keys, RUnlock.
KsKeys(t) ==
    /\ pc[t] = "keys"
    /\ mu.writer = {}
    /\ Goto(t, "rlock")
    /\ UNCHANGED <<mu, loc, callback, gate, store>>

\* m.cache.mu.RLock()
KsRLock(t) ==
    /\ pc[t] = "rlock"
    /\ RLock(t)
    /\ loc' = [loc EXCEPT ![t].snaps = {items}]
    /\ Goto(t, "loop")
    /\ UNCHANGED <<callback, gate, store>>

\* One element of ret of Keyset.Get: multiRet{V, Ok}.
MultiRet(m, k, t) == [V |-> GetReturn(m, k, t).v, Ok |-> GetReturn(m, k, t).ok]

\* Keyset.Get: one iteration of the range over keys.
KsGetLoop(t) ==
    LET l == loc[t]
    IN  /\ pc[t] = "loop" /\ l.op = "Get" /\ l.i <= Len(l.keys)
        /\ loc' = [loc EXCEPT ![t].got = Append(@, MultiRet(items, l.keys[l.i], now)),
                              ![t].i = @ + 1]
        /\ UNCHANGED <<pc, mu, callback, gate, store>>

\* Keyset.Delete: one iteration, v, evicted := m.cache.delete(k); when
\* evicted the callback is called next.
KsDeleteLoop(t) ==
    LET l == loc[t]
        k == l.keys[l.i]
        r == delete(items, k, onEvicted)
    IN  /\ pc[t] = "loop" /\ l.op = "Delete" /\ l.i <= Len(l.keys)
        /\ items' = r.items
        /\ IF r.evicted
           THEN /\ loc' = Snap([loc EXCEPT ![t].arg = k,
                                           ![t].called = Append(@, Call(k, r.v))], r.items)
                /\ Goto(t, "cb")
           ELSE /\ loc' = Snap([loc EXCEPT ![t].i = @ + 1], r.items)
                /\ pc' = pc
        /\ UNCHANGED <<mu, callback, gate, onEvicted, defaultExpiration, now, evicted, ret, written>>

\* m.cache.onEvicted(k, v) runs: a callback that does nothing returns; a
\* callback that calls c.Set(k, 1) needs c.mu.Lock(), sets under it, unlocks
\* and returns. The loop goes on with the next key.
KsCallback(t) ==
    /\ pc[t] = "cb"
    /\ IF callback = "Set"
       THEN /\ mu.writer = {} /\ mu.readers = {}
            /\ items' = set(items, loc[t].arg, 1, DefaultExpiration, now)
       ELSE items' = items
    /\ loc' = Snap([loc EXCEPT ![t].i = @ + 1, ![t].arg = NoKey], items')
    /\ Goto(t, "loop")
    /\ UNCHANGED <<mu, callback, gate, onEvicted, defaultExpiration, now, evicted, ret, written>>

\* Keyset.Set: one iteration, m.cache.set(k, v[i], m.cache.defaultExpiration).
KsSetLoop(t) ==
    LET l == loc[t]
        m2 == set(items, l.keys[l.i], l.vals[l.i], defaultExpiration, now)
    IN  /\ pc[t] = "loop" /\ l.op = "Set" /\ l.i <= Len(l.keys)
        /\ items' = m2
        /\ loc' = Snap([loc EXCEPT ![t].i = @ + 1], m2)
        /\ UNCHANGED <<pc, mu, callback, gate, onEvicted, defaultExpiration, now, evicted, ret, written>>

\* The range is over: the deferred m.cache.mu.RUnlock() and the return.
KsRUnlock(t) ==
    /\ pc[t] = "loop" /\ loc[t].i > Len(loc[t].keys)
    /\ RUnlock(t)
    /\ Goto(t, "done")
    /\ UNCHANGED <<loc, callback, gate, store>>

\* A thread is in its range with a key left to work on, and writes the map
\* there.
InRange(t) == pc[t] = "loop" /\ loc[t].i <= Len(loc[t].keys)
Mutating(t) == InRange(t) /\ loc[t].op \in {"Delete", "Set"}

\* Two threads are in their ranges over the same map without excluding each
\* other and one of them writes it: the Go runtime may find the map written
\* while it is read or written and end the program with a fatal error.
KsFatal ==
    /\ \E t, u \in Threads : t # u /\ Mutating(t) /\ InRange(u)
    /\ pc' = [t \in Threads |-> "fatal"]
    /\ UNCHANGED <<mu, loc, callback, gate, store>>

KsStep(t) ==
    \/ \E c \in KeysetCalls : KsCall(t, c)
    \/ KsKeys(t)
    \/ KsRLock(t)
    \/ KsGetLoop(t)
    \/ KsDeleteLoop(t)
    \/ KsCallback(t)
    \/ KsSetLoop(t)
    \/ KsRUnlock(t)

NextKeyset ==
    \/ \E t \in Threads : KsStep(t)
    \/ KsFatal

SpecKeyset == InitKeyset /\ [][NextKeyset]_vars

(* ------------------------------------------------------------------ *)
(* Proxy                                                               *)
(* ------------------------------------------------------------------ *)
\* The caller that makes the proxy, p := NewProxy(c), and holds it in its
\* local p; p.m are the links, proxy key -> main key. One call at a time.
ProxyOwner == NumThreads + 6
ProxyKeys == {"p", "q"}
NoLinks == [x \in {} |-> NoKey]
Links == loc[ProxyOwner].m

InitProxy ==
    /\ items = NoItems
    /\ onEvicted = FALSE
    /\ callback = "none"
    /\ getOrSetOnce = NewOnce
    /\ forgetters = {}
    /\ \E de \in {NoExpiration, 1} : defaultExpiration = newCache(de)
    /\ now = Now0
    /\ evicted = <<>>
    /\ ret = Ret("New", NoKey, Zero, TRUE)
    /\ written = [k \in Keys |-> {}]
    /\ pc = [t \in {ProxyOwner} |-> "idle"]
    /\ mu = Unlocked
    /\ loc = [t \in {ProxyOwner} |-> [m |-> NoLinks]]

\* Proxy.Proxy(mainKey, proxyKey): p.m[proxyKey] = mainKey
ProxyProxy(mainKey, proxyKey) ==
    /\ loc' = [loc EXCEPT ![ProxyOwner].m = mapSet(@, proxyKey, mainKey)]
    /\ ret' = Ret("ProxyProxy", proxyKey, Zero, TRUE)
    /\ evicted' = <<>>
    /\ UNCHANGED <<pc, mu, callback, gate, items, onEvicted, defaultExpiration, now, written>>

\* Proxy.Delete(proxyKey): delete(p.m, proxyKey)
ProxyDelete(proxyKey) ==
    /\ loc' = [loc EXCEPT ![ProxyOwner].m = mapDelete(@, proxyKey)]
    /\ ret' = Ret("ProxyDelete", proxyKey, Zero, TRUE)
    /\ evicted' = <<>>
    /\ UNCHANGED <<pc, mu, callback, gate, items, onEvicted, defaultExpiration, now, written>>

\* Proxy.Reset(): p.m = make(map[ProxyK]MainK)
ProxyReset ==
    /\ loc' = [loc EXCEPT ![ProxyOwner].m = NoLinks]
    /\ ret' = Ret("ProxyReset", NoKey, Zero, TRUE)
    /\ evicted' = <<>>
    /\ UNCHANGED <<pc, mu, callback, gate, items, onEvicted, defaultExpiration, now, written>>

\* Proxy.Set(mainKey, proxyKey, v): the link, then p.cache.Set(mainKey, v),
\* which is SetWithExpire with DefaultExpiration.
ProxySet(mainKey, proxyKey, v) ==
    /\ loc' = [loc EXCEPT ![ProxyOwner].m = mapSet(@, proxyKey, mainKey)]
    /\ items' = set(items, mainKey, v, DefaultExpiration, now)
    /\ ret' = Ret("ProxySet", proxyKey, Zero, TRUE)
    /\ evicted' = <<>>
    /\ written' = [written EXCEPT ![mainKey] =
                       IF defaultExpiration > 0 THEN {now + defaultExpiration} ELSE {}]
    /\ UNCHANGED <<pc, mu, callback, gate, onEvicted, defaultExpiration, now>>

\* Proxy.Get that returns the main entry without the check of its expiry.
ProxyGetStale(proxyKey) ==
    LET r == IF proxyKey \in DOMAIN Links
             THEN getNoExpiry(items, Links[proxyKey], now)
             ELSE [v |-> Zero, ok |-> FALSE]
    IN  /\ ret' = Ret("ProxyGet", proxyKey, r.v, r.ok)
        /\ evicted' = <<>>
        /\ UNCHANGED <<conc, items, onEvicted, defaultExpiration, now, written>>

\* Proxy.Get(proxyKey): (zero, false) without a link, p.cache.Get(mainKey)
\* with one.
ProxyGet(proxyKey) ==
    LET r == IF proxyKey \in DOMAIN Links
             THEN GetReturn(items, Links[proxyKey], now)
             ELSE [v |-> Zero, ok |-> FALSE]
    IN  /\ ret' = Ret("ProxyGet", proxyKey, r.v, r.ok)
        /\ evicted' = <<>>
        /\ UNCHANGED <<conc, items, onEvicted, defaultExpiration, now, written>>

NextProxy ==
    \/ Tick
    \/ \E k \in Keys, v \in Values, d \in {NoExpiration, 1} : SetWithExpire(k, v, d)
    \/ \E k \in Keys : Delete(k)
    \/ DeleteExpired
    \/ \E k \in Keys, pk \in ProxyKeys : ProxyProxy(k, pk)
    \/ \E pk \in ProxyKeys : ProxyDelete(pk)
    \/ ProxyReset
    \/ \E k \in Keys, pk \in ProxyKeys, v \in Values : ProxySet(k, pk, v)
    \/ \E pk \in ProxyKeys : ProxyGet(pk)

SpecProxy == InitProxy /\ [][NextProxy]_vars

(* ------------------------------------------------------------------ *)
(* Concurrent removals with a callback that calls the cache            *)
(* ------------------------------------------------------------------ *)
\* What the registered callback does with the key k it is handed:
\* c.Set(k, v), c.Get(k) or c.Delete(k).
CallbackBodies == {"Set", "Get", "Delete"}
\* The filters passed to DeleteFunc: the keys they return del = true for and
\* the keys they return stop = true for.
NoFilter == [del |-> {}, stop |-> {}]
Filters == {[del |-> Keys, stop |-> Keys], [del |-> {"a"}, stop |-> {}]}

\* The keys a range over the map in order o visits when the loop breaks
\* after the first key of stop.
Visited(o, stop) ==
    LET n == Len(o)
        stops == {i \in 1..n : o[i] \in stop}
        last == IF stops = {} THEN n ELSE CHOOSE i \in stops : \A j \in stops : i <= j
    IN  {o[i] : i \in 1..last}

\* The calls of the callback for the keys of S with their values in map m,
\* in the order o.
Calls(m, o) == [i \in 1..Len(o) |-> Call(o[i], m[o[i]].Object)]

EvictLocals(op, k, f, t) ==
    [op |-> op, k |-> k, filter |-> f, now |-> t, pending |-> <<>>, arg |-> NoKey, ran |-> FALSE]

\* The calls a thread makes: the operation, its key where it takes one and
\* its filter where it takes one.
EvictCalls ==
    {[op |-> op, k |-> k, filter |-> NoFilter] : op \in {"Delete", "Pop"}, k \in Keys}
        \cup {[op |-> op, k |-> NoKey, filter |-> NoFilter] : op \in {"DeleteExpired", "DeleteAll"}}
        \cup {[op |-> "DeleteFunc", k |-> NoKey, filter |-> f] : f \in Filters}

\* The cache holds an entry that never expires and one that has expired; a
\* callback is registered.
InitEvict ==
    /\ items = [x \in Keys |-> IF x = "a" THEN Item(0, 0) ELSE Item(1, Now0 - 1)]
    /\ onEvicted = TRUE
    /\ callback \in CallbackBodies
    /\ getOrSetOnce = NewOnce
    /\ forgetters = {}
    /\ defaultExpiration = newCache(DefaultExpiration)
    /\ now = Now0
    /\ evicted = <<>>
    /\ ret = Ret("New", NoKey, Zero, TRUE)
    /\ written = [k \in Keys |-> {}]
    /\ pc = [t \in Threads |-> "start"]
    /\ mu = Unlocked
    /\ loc = [t \in Threads |-> EvictLocals("none", NoKey, NoFilter, 0)]

\* A thread calls one of the operations; DeleteExpired reads the clock
\* before it takes the lock.
EvictCall(t, op, k, f) ==
    /\ pc[t] = "start"
    /\ loc' = [loc EXCEPT ![t] = EvictLocals(op, k, f, now)]
    /\ Goto(t, "lock")
    /\ UNCHANGED <<mu, callback, gate, store>>

\* c.mu.Lock()
EvictLock(t) ==
    /\ pc[t] = "lock"
    /\ Lock(t)
    /\ Goto(t, "body")
    /\ UNCHANGED <<loc, callback, gate, store>>

\* The body of Delete under the lock.
DeleteBody(t) ==
    LET r == delete(items, loc[t].k, onEvicted)
    IN  /\ pc[t] = "body" /\ loc[t].op = "Delete"
        /\ items' = r.items
        /\ loc' = [loc EXCEPT ![t].pending =
                       IF r.evicted THEN <<Call(loc[t].k, r.v)>> ELSE <<>>]
        /\ Goto(t, "unlock")
        /\ UNCHANGED <<mu, callback, gate, onEvicted, defaultExpiration, now, evicted, ret, written>>

\* The body of Pop under the lock.
PopBody(t) ==
    LET k == loc[t].k
        r == delete(items, k, onEvicted)
    IN  /\ pc[t] = "body" /\ loc[t].op = "Pop"
        /\ IF k \notin DOMAIN items
           THEN UNCHANGED <<items, loc>>
           ELSE IF items[k].Expiration > 0 /\ now > items[k].Expiration
           THEN UNCHANGED <<items, loc>>
           ELSE /\ items' = r.items
                /\ loc' = [loc EXCEPT ![t].pending =
                               IF r.evicted THEN <<Call(k, r.v)>> ELSE <<>>]
        /\ Goto(t, "unlock")
        /\ UNCHANGED <<mu, callback, gate, onEvicted, defaultExpiration, now, evicted, ret, written>>

\* DeleteExpired that also removes an entry whose expiry is the time read.
DeleteExpiredBodyInclusive(t) ==
    LET gone == {k \in DOMAIN items :
                    items[k].Expiration > 0 /\ loc[t].now >= items[k].Expiration}
        called == IF onEvicted THEN gone ELSE {}
    IN  /\ pc[t] = "body" /\ loc[t].op = "DeleteExpired"
        /\ items' = [x \in (DOMAIN items) \ gone |-> items[x]]
        /\ \E o \in Orders(called) : loc' = [loc EXCEPT ![t].pending = Calls(items, o)]
        /\ Goto(t, "unlock")
        /\ UNCHANGED <<mu, callback, gate, onEvicted, defaultExpiration, now, evicted, ret, written>>

\* The loop of DeleteExpired under the lock, with the clock read before it.
DeleteExpiredBody(t) ==
    LET gone == {k \in DOMAIN items :
                    items[k].Expiration > 0 /\ loc[t].now > items[k].Expiration}
        called == IF onEvicted THEN gone ELSE {}
    IN  /\ pc[t] = "body" /\ loc[t].op = "DeleteExpired"
        /\ items' = [x \in (DOMAIN items) \ gone |-> items[x]]
        /\ \E o \in Orders(called) : loc' = [loc EXCEPT ![t].pending = Calls(items, o)]
        /\ Goto(t, "unlock")
        /\ UNCHANGED <<mu, callback, gate, onEvicted, defaultExpiration, now, evicted, ret, written>>

\* The body of DeleteAll under the lock; the callback is called for every
\* entry of the map taken.
DeleteAllBody(t) ==
    /\ pc[t] = "body" /\ loc[t].op = "DeleteAll"
    /\ items' = [x \in {} |-> Item(Zero, 0)]
    /\ \E o \in Orders(DOMAIN items) :
           loc' = [loc EXCEPT ![t].pending = IF onEvicted THEN Calls(items, o) ELSE <<>>]
    /\ Goto(t, "unlock")
    /\ UNCHANGED <<mu, callback, gate, onEvicted, defaultExpiration, now, evicted, ret, written>>

\* The loop of DeleteFunc under the lock: the map is ranged over in some
\* order until the filter says stop.
DeleteFuncBody(t) ==
    /\ pc[t] = "body" /\ loc[t].op = "DeleteFunc"
    /\ \E o \in Orders(DOMAIN items) :
           LET m == Visited(o, loc[t].filter.stop) \cap loc[t].filter.del
           IN  /\ items' = [x \in (DOMAIN items) \ m |-> items[x]]
               /\ \E om \in Orders(m) :
                      loc' = [loc EXCEPT ![t].pending = IF onEvicted THEN Calls(items, om) ELSE <<>>]
    /\ Goto(t, "unlock")
    /\ UNCHANGED <<mu, callback, gate, onEvicted, defaultExpiration, now, evicted, ret, written>>

\* The operation keeps the lock while it calls the callback.
EvictUnlockDeferred(t) ==
    /\ pc[t] = "unlock"
    /\ Goto(t, "cb")
    /\ UNCHANGED <<mu, loc, callback, gate, store>>

\* c.mu.Unlock(), before any call of the callback.
EvictUnlock(t) ==
    /\ pc[t] = "unlock"
    /\ Unlock(t)
    /\ Goto(t, "cb")
    /\ UNCHANGED <<loc, callback, gate, store>>

\* The operation calls c.onEvicted(k, v) for the next removed entry, or
\* returns when none is left.
EvictCallback(t) ==
    /\ pc[t] = "cb"
    /\ IF loc[t].pending = <<>>
       THEN /\ Goto(t, "done")
            /\ UNCHANGED loc
       ELSE /\ loc' = [loc EXCEPT ![t].arg = Head(loc[t].pending).k,
                                  ![t].pending = Tail(loc[t].pending)]
            /\ Goto(t, "cbEnter")
    /\ UNCHANGED <<mu, callback, gate, store>>

\* The callback calls into the cache, which takes the lock: Lock for Set and
\* Delete, RLock for Get.
CallbackLock(t) ==
    /\ pc[t] = "cbEnter"
    /\ IF callback = "Get" THEN RLock(t) ELSE Lock(t)
    /\ Goto(t, "cbBody")
    /\ UNCHANGED <<loc, callback, gate, store>>

\* The body of the operation the callback calls, under the lock.
CallbackBody(t) ==
    LET k == loc[t].arg
        r == delete(items, k, onEvicted)
    IN  /\ pc[t] = "cbBody"
        /\ IF callback = "Set"
           THEN /\ items' = set(items, k, 1, DefaultExpiration, now)
                /\ loc' = [loc EXCEPT ![t].ran = TRUE]
           ELSE IF callback = "Get"
           THEN /\ items' = items
                /\ loc' = [loc EXCEPT ![t].ran = TRUE]
           ELSE /\ items' = r.items
                /\ loc' = [loc EXCEPT ![t].ran = TRUE,
                                      ![t].pending = IF r.evicted THEN Append(@, Call(k, r.v)) ELSE @]
        /\ Goto(t, "cbUnlock")
        /\ UNCHANGED <<mu, callback, gate, onEvicted, defaultExpiration, now, evicted, ret, written>>

\* The operation the callback called releases the lock and the callback
\* returns.
CallbackUnlock(t) ==
    /\ pc[t] = "cbUnlock"
    /\ IF callback = "Get" THEN RUnlock(t) ELSE Unlock(t)
    /\ Goto(t, "cb")
    /\ UNCHANGED <<loc, callback, gate, store>>

EvictStep(t) ==
    \/ \E c \in EvictCalls : EvictCall(t, c.op, c.k, c.filter)
    \/ EvictLock(t)
    \/ DeleteBody(t)
    \/ PopBody(t)
    \/ DeleteExpiredBody(t)
    \/ DeleteAllBody(t)
    \/ DeleteFuncBody(t)
    \/ EvictUnlock(t)
    \/ EvictCallback(t)
    \/ CallbackLock(t)
    \/ CallbackBody(t)
    \/ CallbackUnlock(t)

NextEvict == \E t \in Threads : EvictStep(t)

SpecEvict == InitEvict /\ [][NextEvict]_vars

(* ------------------------------------------------------------------ *)
(* Removals while another caller replaces the callback                 *)
(* ------------------------------------------------------------------ *)
\* The cache holds an entry that never expires and one that has expired; a
\* callback that does nothing is registered.
InitReplace ==
    /\ items = [x \in Keys |-> IF x = "a" THEN Item(0, 0) ELSE Item(1, Now0 - 1)]
    /\ onEvicted = TRUE
    /\ callback = "none"
    /\ getOrSetOnce = NewOnce
    /\ forgetters = {}
    /\ defaultExpiration = newCache(DefaultExpiration)
    /\ now = Now0
    /\ evicted = <<>>
    /\ ret = Ret("New", NoKey, Zero, TRUE)
    /\ written = [k \in Keys |-> {}]
    /\ pc = [t \in Threads |-> "start"]
    /\ mu = Unlocked
    /\ loc = [t \in Threads |-> EvictLocals("none", NoKey, NoFilter, 0)]

\* Another caller's OnEvicted(f), f nil or not: Lock, c.onEvicted = f,
\* Unlock.
ReplaceOnEvicted(f) ==
    /\ mu = Unlocked
    /\ onEvicted # f
    /\ onEvicted' = f
    /\ UNCHANGED <<conc, items, defaultExpiration, now, evicted, ret, written>>

\* The body of DeleteAll under the lock: the map is taken, and the entries
\* to range over after the unlock are all of it.
ReplaceDeleteAllBody(t) ==
    /\ pc[t] = "body" /\ loc[t].op = "DeleteAll"
    /\ items' = [x \in {} |-> Item(Zero, 0)]
    /\ \E o \in Orders(DOMAIN items) : loc' = [loc EXCEPT ![t].pending = Calls(items, o)]
    /\ Goto(t, "unlock")
    /\ UNCHANGED <<mu, callback, gate, onEvicted, defaultExpiration, now, evicted, ret, written>>

\* The loop of DeleteFunc under the lock: the entries to range over after
\* the unlock are those of m.
ReplaceDeleteFuncBody(t) ==
    /\ pc[t] = "body" /\ loc[t].op = "DeleteFunc"
    /\ \E o \in Orders(DOMAIN items) :
           LET m == Visited(o, loc[t].filter.stop) \cap loc[t].filter.del
           IN  /\ items' = [x \in (DOMAIN items) \ m |-> items[x]]
               /\ \E om \in Orders(m) : loc' = [loc EXCEPT ![t].pending = Calls(items, om)]
    /\ Goto(t, "unlock")
    /\ UNCHANGED <<mu, callback, gate, onEvicted, defaultExpiration, now, evicted, ret, written>>

\* After the unlock: DeleteAll and DeleteFunc test c.onEvicted != nil and
\* return when it is nil; Delete, Pop and DeleteExpired go on to the calls
\* for what delete reported as evicted.
ReplaceTest(t) ==
    /\ pc[t] = "cb"
    /\ IF loc[t].op \in {"DeleteAll", "DeleteFunc"} /\ ~onEvicted
       THEN /\ loc' = [loc EXCEPT ![t].pending = <<>>]
            /\ Goto(t, "done")
       ELSE /\ loc' = loc
            /\ Goto(t, "call")
    /\ UNCHANGED <<mu, callback, gate, store>>

\* c.onEvicted(k, v) for the next removed entry: the field is read and the
\* function it holds is called. Calling nil is a run-time panic.
ReplaceInvoke(t) ==
    /\ pc[t] = "call"
    /\ IF loc[t].pending = <<>>
       THEN /\ Goto(t, "done")
            /\ loc' = loc
       ELSE IF onEvicted
       THEN /\ loc' = [loc EXCEPT ![t].arg = Head(loc[t].pending).k,
                                  ![t].pending = Tail(loc[t].pending),
                                  ![t].ran = TRUE]
            /\ pc' = pc
       ELSE /\ Goto(t, "panic")
            /\ loc' = loc
    /\ UNCHANGED <<mu, callback, gate, store>>

\* The next step of the removal reads the field c.onEvicted: the nil test
\* of DeleteAll and DeleteFunc, and every call c.onEvicted(k, v).
ReadsCallback(t) ==
    \/ pc[t] = "cb" /\ loc[t].op \in {"DeleteAll", "DeleteFunc"}
    \/ pc[t] = "call" /\ loc[t].pending # <<>>

ReplaceStep(t) ==
    \/ \E c \in EvictCalls : EvictCall(t, c.op, c.k, c.filter)
    \/ EvictLock(t)
    \/ DeleteBody(t)
    \/ PopBody(t)
    \/ DeleteExpiredBody(t)
    \/ ReplaceDeleteAllBody(t)
    \/ ReplaceDeleteFuncBody(t)
    \/ EvictUnlock(t)
    \/ ReplaceTest(t)
    \/ ReplaceInvoke(t)

NextReplace ==
    \/ \E t \in Threads : ReplaceStep(t)
    \/ \E f \in BOOLEAN : ReplaceOnEvicted(f)

SpecReplace == InitReplace /\ [][NextReplace]_vars

(* ------------------------------------------------------------------ *)
(* DeleteExpired while other callers set and touch                     *)
(* ------------------------------------------------------------------ *)
\* The thread that calls DeleteExpired, the thread that calls
\* SetWithExpire, and the durations it and the caller of TouchWithExpire
\* pass.
Sweeper == NumThreads + 8
Setter == NumThreads + 7
SweepDurations == {NoExpiration, 1}

\* The locals of DeleteExpired, with the clock time it read; touched are
\* the keys that, since DeleteExpired read the clock and while it has not
\* taken the lock, were last written by a Set or a Touch that left the
\* entry unexpired.
SweepLocals(op, t) ==
    [op |-> op, k |-> NoKey, filter |-> NoFilter, now |-> t, pending |-> <<>>,
     arg |-> NoKey, ran |-> FALSE, touched |-> {}]

\* The cache holds an entry that expires after the next tick of the clock
\* and one that has expired; a callback that does nothing is registered.
InitSweep ==
    /\ items = [x \in Keys |-> IF x = "a" THEN Item(0, Now0) ELSE Item(1, Now0 - 1)]
    /\ onEvicted = TRUE
    /\ callback = "none"
    /\ getOrSetOnce = NewOnce
    /\ forgetters = {}
    /\ defaultExpiration = newCache(DefaultExpiration)
    /\ now = Now0
    /\ evicted = <<>>
    /\ ret = Ret("New", NoKey, Zero, TRUE)
    /\ written = [k \in Keys |-> {}]
    /\ pc = [t \in {Sweeper, Setter} |-> "start"]
    /\ mu = Unlocked
    /\ loc = [t \in {Sweeper, Setter} |->
                 IF t = Setter THEN [k |-> NoKey, e |-> 0] ELSE SweepLocals("none", 0)]

\* DeleteExpired is called: now := time.Now().UnixNano()
SweepCall(t) ==
    /\ pc[t] = "start"
    /\ loc' = [loc EXCEPT ![t] = SweepLocals("DeleteExpired", now)]
    /\ Goto(t, "lock")
    /\ UNCHANGED <<mu, callback, gate, store>>

\* The locals after key k was written with item: every DeleteExpired that
\* has read the clock and waits for the lock notes whether the entry was
\* left unexpired.
Touching(l, k, item) ==
    [u \in DOMAIN l |->
        IF u = Sweeper /\ pc[u] = "lock"
        THEN [l[u] EXCEPT !.touched = IF expired(item, now) THEN @ \ {k} ELSE @ \cup {k}]
        ELSE l[u]]

\* SetWithExpire(k, 1, d) is called: the expiry is computed from the clock
\* before the lock is taken.
SweepSetCall(k, d) ==
    LET d1 == IF d = DefaultExpiration THEN defaultExpiration ELSE d
        e  == IF d1 > 0 THEN now + d1 ELSE 0
    IN  /\ pc[Setter] = "start"
        /\ loc' = [loc EXCEPT ![Setter] = [k |-> k, e |-> e]]
        /\ Goto(Setter, "write")
        /\ UNCHANGED <<mu, callback, gate, store>>

\* SetWithExpire: c.mu.Lock(); c.items[k] = Item{v, e}; c.mu.Unlock()
SweepSetWrite ==
    LET item == Item(1, loc[Setter].e)
    IN  /\ pc[Setter] = "write"
        /\ mu = Unlocked
        /\ items' = mapSet(items, loc[Setter].k, item)
        /\ loc' = Touching(loc, loc[Setter].k, item)
        /\ Goto(Setter, "done")
        /\ UNCHANGED <<mu, callback, gate, onEvicted, defaultExpiration, now, evicted, ret, written>>

\* Another caller's TouchWithExpire(k, d) on a key of the map: under the
\* lock, item.Expiration = time.Now().Add(d).UnixNano().
SweepTouch(k, d) ==
    LET d1 == IF d = DefaultExpiration THEN defaultExpiration ELSE d
        item == Item(items[k].Object, now + d1)
    IN  /\ mu = Unlocked
        /\ k \in DOMAIN items
        /\ items' = mapSet(items, k, item)
        /\ loc' = Touching(loc, k, item)
        /\ UNCHANGED <<pc, mu, callback, gate, onEvicted, defaultExpiration, now, evicted, ret, written>>

SweepStep(t) ==
    \/ SweepCall(t)
    \/ EvictLock(t)
    \/ DeleteExpiredBody(t)
    \/ EvictUnlock(t)
    \/ ReplaceTest(t)
    \/ ReplaceInvoke(t)

NextSweep ==
    \/ Tick
    \/ SweepStep(Sweeper)
    \/ \E k \in Keys, d \in SweepDurations : SweepSetCall(k, d)
    \/ SweepSetWrite
    \/ \E k \in Keys, d \in SweepDurations : SweepTouch(k, d)

SpecSweep == InitSweep /\ [][NextSweep]_vars

(* ------------------------------------------------------------------ *)
(* Concurrent Pop of one key                                           *)
(* ------------------------------------------------------------------ *)
PopKey == "a"

PopLocals == [item |-> Item(Zero, 0), ok |-> FALSE, v |-> Zero, evicted |-> FALSE, expired |-> FALSE]

\* The cache holds the key, with or without an expiry, and a callback is
\* registered; NumThreads threads call Pop and one calls Get.
InitPop ==
    /\ \E e \in {0, Now0 + 1} : items = [x \in {PopKey} |-> Item(1, e)]
    /\ onEvicted = TRUE
    /\ callback = "none"
    /\ getOrSetOnce = NewOnce
    /\ forgetters = {}
    /\ defaultExpiration = newCache(DefaultExpiration)
    /\ now = Now0
    /\ evicted = <<>>
    /\ ret = Ret("New", NoKey, Zero, TRUE)
    /\ written = [k \in Keys |-> {}]
    /\ pc = [t \in Threads \cup {Getter} |-> "start"]
    /\ mu = Unlocked
    /\ loc = [t \in Threads \cup {Getter} |-> IF t = Getter THEN NoLocals ELSE PopLocals]

\* Pop that does not take the lock.
PopNoLock(t) ==
    /\ pc[t] = "start"
    /\ Goto(t, "read")
    /\ UNCHANGED <<mu, loc, callback, gate, store>>

\* c.mu.Lock()
PopLock(t) ==
    /\ pc[t] = "start"
    /\ Lock(t)
    /\ Goto(t, "read")
    /\ UNCHANGED <<loc, callback, gate, store>>

\* item, ok := c.items[k] and the two tests that make Pop return
\* (zero, false).
PopRead(t) ==
    /\ pc[t] = "read"
    /\ IF PopKey \notin DOMAIN items
       THEN /\ loc' = [loc EXCEPT ![t].ok = FALSE, ![t].v = Zero]
            /\ Goto(t, "unlock")
       ELSE IF items[PopKey].Expiration > 0 /\ now > items[PopKey].Expiration
       THEN /\ loc' = [loc EXCEPT ![t].ok = FALSE, ![t].v = Zero, ![t].expired = TRUE]
            /\ Goto(t, "unlock")
       ELSE /\ loc' = [loc EXCEPT ![t].item = items[PopKey]]
            /\ Goto(t, "delete")
    /\ UNCHANGED <<mu, callback, gate, store>>

\* v, evicted := c.delete(k)
PopDelete(t) ==
    LET r == delete(items, PopKey, onEvicted)
    IN  /\ pc[t] = "delete"
        /\ items' = r.items
        /\ loc' = [loc EXCEPT ![t].ok = TRUE, ![t].v = loc[t].item.Object,
                              ![t].evicted = r.evicted]
        /\ Goto(t, "unlock")
        /\ UNCHANGED <<mu, callback, gate, onEvicted, defaultExpiration, now, evicted, ret, written>>

\* c.mu.Unlock(), on each of the three paths
PopUnlock(t) ==
    /\ pc[t] = "unlock"
    /\ mu' = [mu EXCEPT !.writer = @ \ {t}]
    /\ Goto(t, "cb")
    /\ UNCHANGED <<loc, callback, gate, store>>

\* if evicted { c.onEvicted(k, v) } and the return
PopReturn(t) ==
    /\ pc[t] = "cb"
    /\ evicted' = IF loc[t].evicted THEN Append(evicted, Call(PopKey, loc[t].v)) ELSE evicted
    /\ Goto(t, "done")
    /\ UNCHANGED <<mu, loc, callback, gate, items, onEvicted, defaultExpiration, now, ret, written>>

NextPop ==
    \/ Tick
    \/ \E t \in Threads :
           \/ PopLock(t)
           \/ PopRead(t)
           \/ PopDelete(t)
           \/ PopUnlock(t)
           \/ PopReturn(t)
    \/ GetRLock(Getter)
    \/ GetRead(Getter)
    \/ GetRUnlock(Getter)

SpecPop == InitPop /\ [][NextPop]_vars

(* ------------------------------------------------------------------ *)
(* DeleteAll and DeleteFunc, statement by statement                    *)
(* ------------------------------------------------------------------ *)
\* The goroutine that calls DeleteAll or DeleteFunc; the other callers run
\* Set and OnEvicted whenever cache.mu is free.
Remover == NumThreads + 4
\* The filters given to DeleteFunc: always (true, true), (true, false) on
\* key "a" only, and always (true, false).
RemoveFilters == Filters \cup {[del |-> Keys, stop |-> {}]}
\* The calls the remover makes. "DeleteFuncKeyset" is the DeleteFunc written
\* with Find, Keyset.Get and Keyset.Delete.
RemoveCalls ==
    {[op |-> "DeleteAll", filter |-> NoFilter]}
        \cup {[op |-> op, filter |-> f] : op \in {"DeleteFunc", "DeleteFuncKeyset"}, f \in RemoveFilters}

\* The remover's local variables and what it did: the keys the range has
\* visited, the key of the current iteration, the entries as the filter saw
\* them, the entries that were in the map when they were deleted, the map m
\* it returns, the keys of the Keyset and what Keyset.Get returned, the
\* calls of the callback it made and whether it held the lock during them.
RemoveLocals(op, f) ==
    [op |-> op, filter |-> f, visited |-> {}, cur |-> NoKey, saw |-> NoItems,
     gone |-> NoItems, m |-> NoItems, keys |-> <<>>, got |-> <<>>,
     called |-> <<>>, lockedCalls |-> FALSE, races |-> 0]

\* The entries the cache may hold when the remover is called: one that never
\* expires and one that expires after the next tick of the clock.
Stock == [x \in Keys |-> IF x = "a" THEN Item(0, 0) ELSE Item(1, Now0)]

InitRemove ==
    /\ \E S \in SUBSET Keys : items = [x \in S |-> Stock[x]]
    /\ onEvicted \in BOOLEAN
    /\ callback = "none"
    /\ getOrSetOnce = NewOnce
    /\ forgetters = {}
    /\ defaultExpiration = newCache(DefaultExpiration)
    /\ now = Now0
    /\ evicted = <<>>
    /\ ret = Ret("New", NoKey, Zero, TRUE)
    /\ written = [k \in Keys |-> {}]
    /\ mu = Unlocked
    /\ pc = [t \in {Remover} |-> "start"]
    /\ loc = [t \in {Remover} |-> RemoveLocals("none", NoFilter)]

\* Another caller may run an operation while the remover is in its call, at
\* most MaxRaces times, when cache.mu is free.
Racing ==
    /\ pc[Remover] \notin {"start", "done"}
    /\ loc[Remover].races < MaxRaces
    /\ mu = Unlocked
    /\ pc' = pc /\ mu' = mu /\ callback' = callback /\ UNCHANGED gate
    /\ loc' = [loc EXCEPT ![Remover].races = @ + 1]

\* Another caller's Set, which takes the lock for writing.
CallerSet(k, v, d) ==
    LET d1 == IF d = DefaultExpiration THEN defaultExpiration ELSE d
        e  == IF d1 > 0 THEN now + d1 ELSE 0
    IN  /\ Racing
        /\ items' = mapSet(items, k, Item(v, e))
        /\ evicted' = <<>>
        /\ ret' = Ret("Set", k, Zero, TRUE)
        /\ written' = [written EXCEPT ![k] = IF d1 > 0 THEN {now + d1} ELSE {}]
        /\ UNCHANGED <<onEvicted, defaultExpiration, now>>

\* Another caller's OnEvicted, which takes the lock for writing.
CallerOnEvicted(f) ==
    /\ Racing
    /\ onEvicted' = f
    /\ evicted' = <<>>
    /\ ret' = Ret("OnEvicted", NoKey, Zero, TRUE)
    /\ UNCHANGED <<items, defaultExpiration, now, written>>

\* The remover calls DeleteAll or DeleteFunc.
RemoveCall(op, f) ==
    /\ pc[Remover] = "start"
    /\ loc' = [loc EXCEPT ![Remover] = RemoveLocals(op, f)]
    /\ Goto(Remover, "lock")
    /\ UNCHANGED <<mu, callback, gate, store>>

\* DeleteAll and DeleteFunc without c.mu.Lock().
RemoveNoLock ==
    /\ pc[Remover] = "lock"
    /\ Goto(Remover, IF loc[Remover].op = "DeleteAll" THEN "take"
                     ELSE IF loc[Remover].op = "DeleteFunc" THEN "range" ELSE "find")
    /\ UNCHANGED <<mu, loc, callback, gate, store>>

\* c.mu.Lock(), the first statement of DeleteAll, DeleteFunc and Find.
RemoveLock ==
    /\ pc[Remover] = "lock"
    /\ Lock(Remover)
    /\ Goto(Remover, IF loc[Remover].op = "DeleteAll" THEN "take"
                     ELSE IF loc[Remover].op = "DeleteFunc" THEN "range" ELSE "find")
    /\ UNCHANGED <<loc, callback, gate, store>>

\* DeleteAll that returns, and calls the callback for, the unexpired
\* entries only.
DeleteAllTakeUnexpired ==
    /\ pc[Remover] = "take"
    /\ items' = NoItems
    /\ loc' = [loc EXCEPT ![Remover].m = ItemsReturn(items, now), ![Remover].gone = items,
                          ![Remover].saw = items]
    /\ Goto(Remover, "unlock")
    /\ UNCHANGED <<mu, callback, gate, onEvicted, defaultExpiration, now, evicted, ret, written>>

\* DeleteAll: items := c.items; c.items = map[K]Item[V]{}
DeleteAllTake ==
    /\ pc[Remover] = "take"
    /\ items' = NoItems
    /\ loc' = [loc EXCEPT ![Remover].m = items, ![Remover].gone = items,
                          ![Remover].saw = items]
    /\ Goto(Remover, "unlock")
    /\ UNCHANGED <<mu, callback, gate, onEvicted, defaultExpiration, now, evicted, ret, written>>

\* DeleteFunc: the range reaches the next entry and calls filter(k, v), or
\* ends when no entry is left.
DeleteFuncFilter ==
    LET rest == (DOMAIN items) \ loc[Remover].visited
    IN  /\ pc[Remover] = "range"
        /\ IF rest = {}
           THEN /\ Goto(Remover, "unlock")
                /\ UNCHANGED loc
           ELSE \E k \in rest :
                    /\ loc' = [loc EXCEPT ![Remover].visited = @ \cup {k},
                                          ![Remover].cur = k,
                                          ![Remover].saw = mapSet(@, k, items[k])]
                    /\ Goto(Remover, IF k \in loc[Remover].filter.del THEN "del"
                                     ELSE IF k \in loc[Remover].filter.stop THEN "unlock"
                                     ELSE "range")
        /\ UNCHANGED <<mu, callback, gate, store>>

\* DeleteFunc that goes on with the range when stop is true.
DeleteFuncDeleteNoBreak ==
    LET k == loc[Remover].cur
    IN  /\ pc[Remover] = "del"
        /\ items' = delete(items, k, onEvicted).items
        /\ loc' = [loc EXCEPT ![Remover].m = mapSet(@, k, loc[Remover].saw[k]),
                              ![Remover].gone = IF k \in DOMAIN items
                                                THEN mapSet(@, k, items[k]) ELSE @]
        /\ Goto(Remover, "range")
        /\ UNCHANGED <<mu, callback, gate, onEvicted, defaultExpiration, now, evicted, ret, written>>

\* DeleteFunc, del is true: m[k] = Item{v.Object, v.Expiration}; c.delete(k);
\* then the break if stop is true.
DeleteFuncDelete ==
    LET k == loc[Remover].cur
    IN  /\ pc[Remover] = "del"
        /\ items' = delete(items, k, onEvicted).items
        /\ loc' = [loc EXCEPT ![Remover].m = mapSet(@, k, loc[Remover].saw[k]),
                              ![Remover].gone = IF k \in DOMAIN items
                                                THEN mapSet(@, k, items[k]) ELSE @]
        /\ Goto(Remover, IF k \in loc[Remover].filter.stop THEN "unlock" ELSE "range")
        /\ UNCHANGED <<mu, callback, gate, onEvicted, defaultExpiration, now, evicted, ret, written>>

\* c.mu.Unlock() of DeleteAll and DeleteFunc
RemoveUnlock ==
    /\ pc[Remover] = "unlock"
    /\ Unlock(Remover)
    /\ Goto(Remover, "callbacks")
    /\ UNCHANGED <<loc, callback, gate, store>>

\* if c.onEvicted != nil { for k, v := range m { c.onEvicted(k, v.Object) } }
\* and the return of m.
RemoveCallbacks ==
    /\ pc[Remover] = "callbacks"
    /\ \E o \in Orders(DOMAIN loc[Remover].m) :
           loc' = [loc EXCEPT ![Remover].called =
                       IF onEvicted THEN Calls(loc[Remover].m, o) ELSE <<>>,
                                  ![Remover].lockedCalls =
                       onEvicted /\ loc[Remover].m # NoItems
                           /\ (Remover \in mu.writer \/ Remover \in mu.readers)]
    /\ Goto(Remover, "done")
    /\ UNCHANGED <<mu, callback, gate, store>>

\* The sequence o without the elements outside S.
SelectIn(o, S) == SelectSeq(o, LAMBDA x : x \in S)

\* Find under the lock: the range calls the filter until it says stop, and
\* the keys it says incl for are appended to keys.
FindLoop ==
    /\ pc[Remover] = "find"
    /\ \E o \in Orders(DOMAIN items) :
           LET vis == Visited(o, loc[Remover].filter.stop)
           IN  loc' = [loc EXCEPT ![Remover].visited = vis,
                                  ![Remover].saw = [x \in vis |-> items[x]],
                                  ![Remover].keys = SelectIn(o, vis \cap loc[Remover].filter.del)]
    /\ Goto(Remover, "findUnlock")
    /\ UNCHANGED <<mu, callback, gate, store>>

\* Find: defer c.mu.Unlock()
FindUnlock ==
    /\ pc[Remover] = "findUnlock"
    /\ Unlock(Remover)
    /\ Goto(Remover, "getRLock")
    /\ UNCHANGED <<loc, callback, gate, store>>

\* Keyset.Get: keys = m.Keys(), which takes and releases the read lock, and
\* m.cache.mu.RLock()
KeysetGetRLock ==
    /\ pc[Remover] = "getRLock"
    /\ RLock(Remover)
    /\ Goto(Remover, "get")
    /\ UNCHANGED <<loc, callback, gate, store>>

\* What Keyset.Get returns at clock time t for the keys ks: per key (V, Ok).
KeysetGetReturn(m, ks, t) ==
    [i \in 1..Len(ks) |-> [V |-> get(m, ks[i], t).v, Ok |-> get(m, ks[i], t).ok]]

\* Keyset.Get: the loop over the keys.
KeysetGetLoop ==
    /\ pc[Remover] = "get"
    /\ loc' = [loc EXCEPT ![Remover].got = KeysetGetReturn(items, loc[Remover].keys, now)]
    /\ Goto(Remover, "getRUnlock")
    /\ UNCHANGED <<mu, callback, gate, store>>

\* Keyset.Get: defer m.cache.mu.RUnlock(); DeleteFunc then fills m with
\* Item{Object: item.V} for each key.
KeysetGetRUnlock ==
    LET ks == loc[Remover].keys
    IN  /\ pc[Remover] = "getRUnlock"
        /\ RUnlock(Remover)
        /\ loc' = [loc EXCEPT ![Remover].m =
                       [x \in {ks[i] : i \in 1..Len(ks)} |->
                           Item(loc[Remover].got[CHOOSE i \in 1..Len(ks) : ks[i] = x].V, 0)]]
        /\ Goto(Remover, "delRLock")
        /\ UNCHANGED <<callback, gate, store>>

\* Keyset.Delete: m.cache.mu.RLock()
KeysetDeleteRLock ==
    /\ pc[Remover] = "delRLock"
    /\ RLock(Remover)
    /\ Goto(Remover, "delete")
    /\ UNCHANGED <<loc, callback, gate, store>>

\* Keyset.Delete: the loop, which deletes each key and calls the callback
\* for it while the read lock is held.
KeysetDeleteLoop ==
    LET ks == loc[Remover].keys
        here == SelectIn(ks, DOMAIN items)
    IN  /\ pc[Remover] = "delete"
        /\ items' = [x \in (DOMAIN items) \ {ks[i] : i \in 1..Len(ks)} |-> items[x]]
        /\ loc' = [loc EXCEPT ![Remover].gone = [x \in {here[i] : i \in 1..Len(here)} |-> items[x]],
                              ![Remover].called = IF onEvicted THEN Calls(items, here) ELSE <<>>,
                              ![Remover].lockedCalls = onEvicted /\ here # <<>>]
        /\ Goto(Remover, "delRUnlock")
        /\ UNCHANGED <<mu, callback, gate, onEvicted, defaultExpiration, now, evicted, ret, written>>

\* Keyset.Delete: defer m.cache.mu.RUnlock(), and the return of m.
KeysetDeleteRUnlock ==
    /\ pc[Remover] = "delRUnlock"
    /\ RUnlock(Remover)
    /\ Goto(Remover, "done")
    /\ UNCHANGED <<loc, callback, gate, store>>

NextRemove ==
    \/ Tick
    \/ \E k \in Keys, v \in Values, d \in {NoExpiration, 1} : CallerSet(k, v, d)
    \/ \E f \in BOOLEAN : CallerOnEvicted(f)
    \/ \E c \in RemoveCalls : RemoveCall(c.op, c.filter)
    \/ RemoveLock
    \/ DeleteAllTake
    \/ DeleteFuncFilter
    \/ DeleteFuncDelete
    \/ RemoveUnlock
    \/ RemoveCallbacks
    \/ FindLoop
    \/ FindUnlock
    \/ KeysetGetRLock
    \/ KeysetGetLoop
    \/ KeysetGetRUnlock
    \/ KeysetDeleteRLock
    \/ KeysetDeleteLoop
    \/ KeysetDeleteRUnlock

SpecRemove == InitRemove /\ [][NextRemove]_vars

(* ------------------------------------------------------------------ *)
(* The janitor                                                         *)
(* ------------------------------------------------------------------ *)
\* The janitor's goroutine, and the goroutine that calls stopJanitor.
Janitor == NumThreads + 2
Stopper == NumThreads + 3
\* The cleanup intervals given to New().
Intervals == {-1, 0, 1}

\* The janitor: its Interval and the keys its last sweep removed.
JanitorLocals(ci) == [Interval |-> ci, removed |-> {}]

\* newCacheWithJanitor that starts a janitor whatever the interval.
InitJanitorAlways ==
    /\ items = [x \in {} |-> Item(Zero, 0)]
    /\ onEvicted = FALSE
    /\ callback = "none"
    /\ getOrSetOnce = NewOnce
    /\ forgetters = {}
    /\ \E de \in DeArgs : defaultExpiration = newCache(de)
    /\ now = Now0
    /\ evicted = <<>>
    /\ ret = Ret("New", NoKey, Zero, TRUE)
    /\ written = [k \in Keys |-> {}]
    /\ mu = Unlocked
    /\ \E ci \in Intervals :
           /\ loc = [t \in {Janitor, Stopper} |-> JanitorLocals(ci)]
           /\ pc = [t \in {Janitor, Stopper} |-> IF t = Janitor THEN "select" ELSE "idle"]

\* newCacheWithJanitor(de, ci, m): a janitor is started when ci > 0.
InitJanitor ==
    /\ items = [x \in {} |-> Item(Zero, 0)]
    /\ onEvicted = FALSE
    /\ callback = "none"
    /\ getOrSetOnce = NewOnce
    /\ forgetters = {}
    /\ \E de \in DeArgs : defaultExpiration = newCache(de)
    /\ now = Now0
    /\ evicted = <<>>
    /\ ret = Ret("New", NoKey, Zero, TRUE)
    /\ written = [k \in Keys |-> {}]
    /\ mu = Unlocked
    /\ \E ci \in Intervals :
           /\ loc = [t \in {Janitor, Stopper} |-> JanitorLocals(ci)]
           /\ pc = [t \in {Janitor, Stopper} |->
                       IF t = Janitor /\ ci > 0 THEN "select" ELSE "idle"]

\* case <-ticker.C: the ticker of the janitor has fired.
JanitorTick ==
    /\ pc[Janitor] = "select"
    /\ Goto(Janitor, "sweep")
    /\ UNCHANGED <<mu, loc, callback, gate, store>>

\* The janitor's sweep that removes nothing.
JanitorSweepNothing ==
    /\ pc[Janitor] = "sweep"
    /\ loc' = [loc EXCEPT ![Janitor].removed = {}]
    /\ Goto(Janitor, "select")
    /\ UNCHANGED <<mu, callback, gate, store>>

\* c.DeleteExpired() called by the janitor, which then selects again.
JanitorSweep ==
    LET gone == {k \in DOMAIN items : items[k].Expiration > 0 /\ now > items[k].Expiration}
        called == IF onEvicted THEN gone ELSE {}
    IN  /\ pc[Janitor] = "sweep"
        /\ items' = [x \in (DOMAIN items) \ gone |-> items[x]]
        /\ \E o \in Orders(called) :
               evicted' = [i \in 1..Cardinality(called) |-> Call(o[i], items[o[i]].Object)]
        /\ loc' = [loc EXCEPT ![Janitor].removed = gone]
        /\ Goto(Janitor, "select")
        /\ UNCHANGED <<mu, callback, gate, onEvicted, defaultExpiration, now, ret, written>>

\* stopJanitor: c.janitor.stop <- true blocks until the janitor receives.
\* It is the finalizer set when a janitor was started.
StopSend ==
    /\ pc[Stopper] = "idle"
    /\ loc[Janitor].Interval > 0
    /\ Goto(Stopper, "sending")
    /\ UNCHANGED <<mu, loc, callback, gate, store>>

\* The janitor receives from j.stop and goes on with its loop.
JanitorStopIgnored ==
    /\ pc[Janitor] = "select"
    /\ pc[Stopper] = "sending"
    /\ pc' = [pc EXCEPT ![Stopper] = "sent"]
    /\ UNCHANGED <<mu, loc, callback, gate, store>>

\* case <-j.stop: ticker.Stop(); return
JanitorStop ==
    /\ pc[Janitor] = "select"
    /\ pc[Stopper] = "sending"
    /\ pc' = [pc EXCEPT ![Janitor] = "stopped", ![Stopper] = "sent"]
    /\ UNCHANGED <<mu, loc, callback, gate, store>>

NextJanitor ==
    \/ Tick
    \/ \E k \in Keys, v \in Values, d \in Durations : SetWithExpire(k, v, d)
    \/ \E k \in Keys : Delete(k)
    \/ DeleteExpired
    \/ \E f \in BOOLEAN : OnEvicted(f)
    \/ ItemCount
    \/ JanitorTick
    \/ JanitorSweep
    \/ StopSend
    \/ JanitorStop

SpecJanitor == InitJanitor /\ [][NextJanitor]_vars

\* The janitor's goroutine is scheduled, its ticker keeps firing, and a
\* select with a sender waiting on j.stop does not pick the ticker forever.
FairJanitor ==
    /\ SpecJanitor
    /\ WF_vars(JanitorTick)
    /\ WF_vars(JanitorSweep)
    /\ SF_vars(JanitorStop)

(* ------------------------------------------------------------------ *)
(* Properties of the operations                                        *)
(* ------------------------------------------------------------------ *)
\* Key k is in the map and its entry is not expired at the current time.
Live(k) == k \in DOMAIN items /\ ~(items[k].Expiration > 0 /\ now > items[k].Expiration)

\* The map is the same before and after the step, except possibly at the keys of S.
SameExcept(S) ==
    /\ (DOMAIN items') \ S = (DOMAIN items) \ S
    /\ \A x \in (DOMAIN items) \ S : items'[x] = items[x]

\* C3: an entry written by Set at clock time t with a TTL d > 0, and not
\* written, touched or removed by a caller since, is found by Get at every
\* clock time <= t + d and is not found at any clock time > t + d, whether
\* or not DeleteExpired has run.
C3_ExpiryMonotone ==
    \A k \in Keys :
        \A deadline \in written[k] : GetReturn(items, k, now).ok <=> now <= deadline

\* Get has just missed an entry Set wrote with a TTL, which is past its
\* expiry and still in the map.
C3_Witness ==
    /\ ret.op = "Get" /\ ~ret.ok
    /\ \E deadline \in written[ret.k] : now > deadline
    /\ ret.k \in DOMAIN items

\* C4: at any instant and for any key exactly one of Add and Replace would
\* succeed: Add iff the key is absent or its entry is expired, Replace iff
\* the key is present and unexpired.
C4_AddReplaceComplement ==
    \A k \in Keys :
        /\ AddErr(items, k, now) # ReplaceErr(items, k, now)
        /\ ~AddErr(items, k, now) <=> ~Live(k)
        /\ ~ReplaceErr(items, k, now) <=> Live(k)

\* Replace has just failed on a key whose expired entry is still in the map.
C4_Witness ==
    /\ ret.op = "Replace" /\ ~ret.ok
    /\ ret.k \in DOMAIN items
    /\ ~Live(ret.k) /\ ~AddErr(items, ret.k, now)

\* A step of the operation named op: every operation records its name in
\* ret, and only the clock's tick leaves ret alone.
StepOf(op) == now' = now /\ ret'.op = op

\* C5: with a callback registered, Delete(k) of a key in the map removes it
\* and calls the callback exactly once, with k and the value stored; Delete(k)
\* of an absent key calls nothing and leaves the map unchanged.
C5_DeleteCallback ==
    [][(onEvicted /\ StepOf("Delete") /\ Delete(ret'.k)) =>
          IF ret'.k \in DOMAIN items
          THEN /\ ret'.k \notin DOMAIN items'
               /\ SameExcept({ret'.k})
               /\ evicted' = <<Call(ret'.k, items[ret'.k].Object)>>
          ELSE /\ items' = items
               /\ evicted' = <<>>]_vars

\* Delete has just removed a key and called the callback for it.
C5_Witness ==
    /\ ret.op = "Delete" /\ onEvicted
    /\ Len(evicted) = 1 /\ evicted[1].k = ret.k
    /\ ret.k \notin DOMAIN items

\* C6: Set, Add, Replace, Touch, Modify, Rename and Reset never call the
\* eviction callback, also when they overwrite or discard entries.
C6_NoCallbackOnWrite ==
    [][(\E op \in {"Set", "Add", "Replace", "Touch", "Modify", "Rename", "Reset"} : StepOf(op))
       => evicted' = <<>>]_vars

\* With a callback registered, Rename has just moved an entry away from its
\* source key, and no callback was called.
C6_Witness ==
    /\ ret.op = "Rename" /\ ret.ok /\ onEvicted
    /\ ret.k \notin DOMAIN items
    /\ evicted = <<>>

\* C8: TouchWithExpire(k, d) with d > 0 sets the expiry of a present,
\* unexpired entry to now + d, keeps its value and returns (value, true);
\* on an absent or expired key it returns found = false and changes nothing.
C8_Touch ==
    [][\A d \in Durations :
          (d > 0 /\ StepOf("Touch") /\ TouchWithExpire(ret'.k, d)) =>
              IF Live(ret'.k)
              THEN /\ items' = mapSet(items, ret'.k, Item(items[ret'.k].Object, now + d))
                   /\ ret'.ok /\ ret'.v = items[ret'.k].Object
              ELSE /\ items' = items
                   /\ ~ret'.ok]_vars

\* C9: TouchWithExpire(k, NoExpiration), and a Touch with DefaultExpiration
\* on a cache whose default is to never expire, leave a present unexpired
\* entry with no expiry: Get finds it at every later clock time.
C9_TouchNoExpiration ==
    [][\A d \in Durations :
          (/\ StepOf("Touch")
           /\ Live(ret'.k)
           /\ \/ d = NoExpiration
              \/ d = DefaultExpiration /\ defaultExpiration = NoExpiration
           /\ TouchWithExpire(ret'.k, d))
          => \A t \in now..(MaxNow + 1) : GetReturn(items', ret'.k, t).ok]_vars

\* C10: Set, Add and Replace substitute the cache's default for
\* DefaultExpiration; the default is never DefaultExpiration itself (0 is
\* normalized to NoExpiration at construction); a resolved NoExpiration
\* stores an entry that never expires, a resolved duration > 0 stores the
\* expiry now + duration.
C10_Resolved(k, d) ==
    LET r == IF d = DefaultExpiration THEN defaultExpiration ELSE d
    IN  /\ r = NoExpiration =>
            /\ items'[k].Expiration = 0
            /\ \A t \in now..(MaxNow + 1) : GetReturn(items', k, t).ok
        /\ r > 0 => items'[k].Expiration = now + r

C10_ResolveTTL ==
    [][/\ defaultExpiration # DefaultExpiration
       /\ StepOf("Set") =>
             \A d \in Durations :
                 SetWithExpire(ret'.k, items'[ret'.k].Object, d) => C10_Resolved(ret'.k, d)
       /\ (StepOf("Add") /\ ret'.ok) =>
             \A d \in Durations :
                 AddWithExpire(ret'.k, items'[ret'.k].Object, d) => C10_Resolved(ret'.k, d)
       /\ (StepOf("Replace") /\ ret'.ok) =>
             \A d \in Durations :
                 ReplaceWithExpire(ret'.k, items'[ret'.k].Object, d) => C10_Resolved(ret'.k, d)]_vars

\* Add has just stored an entry whose expiry is the default TTL from now.
C10_Witness ==
    /\ ret.op = "Add" /\ ret.ok
    /\ defaultExpiration > 0
    /\ ret.k \in DOMAIN items /\ items[ret.k].Expiration = now + defaultExpiration

\* C1: when N concurrent calls of Modify, each applying v -> v + 1 to the
\* same key holding 0, have all returned and the key is still unexpired, the
\* stored value is N and every call has reported applied = true, whatever
\* the interleaving with each other and with calls of Get.
C1_AtomicModify ==
    ((\A t \in Threads : pc[t] = "done") /\ Live(ModKey)) =>
        /\ items[ModKey].Object = NumThreads
        /\ \A t \in Threads : loc[t].ok

\* All the calls of Modify have returned, the key is unexpired, and the
\* caller of Get has seen a value between the first and the last.
C1_Witness ==
    /\ \A t \in Threads : pc[t] = "done"
    /\ Live(ModKey)
    /\ items[ModKey].Object = NumThreads
    /\ loc[Getter].ok /\ loc[Getter].v > 0 /\ loc[Getter].v < NumThreads

C2_Coalescing ==
    ((\A t \in Threads : pc[t] = "done" /\ loc[t].absent)) =>
        /\ Cardinality({t \in Threads : loc[t].populated}) = 1
        /\ \A t, u \in Threads : loc[t].result = loc[u].result

\* C11: Set, Add and Replace with a negative duration that is not
\* NoExpiration store an entry that expires at once: Get does not find it at
\* any later clock time.
C11_NegativeDuration ==
    [][\A d \in SetDurations :
          (/\ d < 0 /\ d # NoExpiration
           /\ \/ StepOf("Set") /\ SetWithExpire(ret'.k, items'[ret'.k].Object, d)
              \/ StepOf("Add") /\ ret'.ok /\ AddWithExpire(ret'.k, items'[ret'.k].Object, d)
              \/ StepOf("Replace") /\ ret'.ok /\ ReplaceWithExpire(ret'.k, items'[ret'.k].Object, d))
          => \A t \in (now + 1)..(MaxNow + 1) : ~GetReturn(items', ret'.k, t).ok]_vars

ReadOps == {"Get", "GetStale", "GetWithExpire", "Keys", "Items", "ItemCount"}

\* C12: Get, GetStale, GetWithExpire, Keys, Items and ItemCount leave the
\* map and the registered callback unchanged and call no callback; Get on an
\* expired entry returns found = false and does not remove it: GetStale
\* finds it and ItemCount counts it afterwards.
C12_ReadsDoNotWrite ==
    [][(now' = now /\ ret'.op \in ReadOps) =>
          /\ items' = items
          /\ onEvicted' = onEvicted
          /\ evicted' = <<>>
          /\ (ret'.op = "Get" /\ ret'.k \in DOMAIN items /\ ~Live(ret'.k)) =>
                 /\ ~ret'.ok
                 /\ GetStaleReturn(items', ret'.k, now').ok
                 /\ GetStaleReturn(items', ret'.k, now').expired
                 /\ ItemCountReturn(items') = ItemCountReturn(items)]_vars

\* Get has missed an expired entry, and GetStale, called next, has found it
\* still in the map.
C12_Witness ==
    /\ ret.op = "GetStale" /\ ret.r.ok /\ ret.r.expired
    /\ ~GetReturn(items, ret.k, now).ok
    /\ onEvicted

\* C13: Modify(k, fn) on an absent or expired key does not call fn, returns
\* applied = false and leaves the map unchanged; otherwise it calls fn once,
\* the value of the entry becomes fn(old value), its expiry and every other
\* key stay as they were, and (new value, true) is returned.
C13_Modify ==
    [][\A f \in Fns :
          (StepOf("Modify") /\ Modify(ret'.k, f)) =>
              IF Live(ret'.k)
              THEN /\ DOMAIN items' = DOMAIN items
                   /\ items'[ret'.k].Object = Apply(f, items[ret'.k].Object)
                   /\ items'[ret'.k].Expiration = items[ret'.k].Expiration
                   /\ SameExcept({ret'.k})
                   /\ ret'.ok /\ ret'.v = Apply(f, items[ret'.k].Object)
                   /\ ret'.calls = 1
              ELSE /\ items' = items
                   /\ ~ret'.ok /\ ret'.v = Zero
                   /\ ret'.calls = 0]_vars

\* Modify has just incremented the value of an entry that has an expiry,
\* next to another entry.
C13_Witness ==
    /\ ret.op = "Modify" /\ ret.ok /\ ret.v = 1
    /\ items[ret.k] = Item(1, now + 1)
    /\ DOMAIN items = Keys

\* What Get(k) immediately followed by Delete(k) does, as one step: what Get
\* returns, the map after Delete and the calls of the callback Delete makes.
GetThenDelete(m, k, t, cb) ==
    LET g == GetReturn(m, k, t)
        r == delete(m, k, cb)
    IN  [v |-> g.v, ok |-> g.ok, items |-> r.items,
         evicted |-> IF r.evicted THEN <<Call(k, r.v)>> ELSE <<>>]

\* C14: Pop(k) returns what Get(k) returns, and leaves the map and calls the
\* callback as Delete(k) following that Get does, whether k is absent,
\* present and unexpired, or present and expired.
C14_PopIsGetDelete ==
    [][StepOf("Pop") =>
          LET gd == GetThenDelete(items, ret'.k, now, onEvicted)
          IN  /\ ret'.v = gd.v /\ ret'.ok = gd.ok
              /\ items' = gd.items
              /\ evicted' = gd.evicted]_vars

\* C15: when concurrent calls of Pop on one key, present with a callback
\* registered, have all returned and none found the key expired, exactly one
\* has returned (value, true), every other has returned (zero, false), and the
\* callback has been called exactly once, with the key and the value.
C15_PopOnce ==
    (\A t \in Threads : pc[t] = "done" /\ ~loc[t].expired) =>
        /\ Cardinality({t \in Threads : loc[t].ok}) = 1
        /\ \A t \in Threads : IF loc[t].ok THEN loc[t].v = 1 ELSE loc[t].v = Zero
        /\ evicted = <<Call(PopKey, 1)>>

\* All calls of Pop have returned, one with the value, after the clock
\* has advanced, and the caller of Get has seen the key before it was gone.
C15_Witness ==
    /\ \A t \in Threads : pc[t] = "done" /\ ~loc[t].expired
    /\ \E t \in Threads : loc[t].ok
    /\ loc[Getter].ok
    /\ now > Now0
    /\ Len(evicted) = 1

\* C16: Rename(src, dst) of a present, unexpired src returns true and leaves
\* under dst exactly the value and expiry src had, src absent when it
\* differs from dst, and every other key as it was; Rename of an absent or
\* expired src returns false and leaves the map unchanged.
C16_Rename ==
    [][\A dst \in Keys :
          (StepOf("Rename") /\ Rename(ret'.k, dst)) =>
              IF Live(ret'.k)
              THEN /\ ret'.ok
                   /\ dst \in DOMAIN items' /\ items'[dst] = items[ret'.k]
                   /\ dst # ret'.k => ret'.k \notin DOMAIN items'
                   /\ SameExcept({ret'.k, dst})
              ELSE /\ ~ret'.ok
                   /\ items' = items]_vars

\* With a callback registered, Rename has just moved an entry that has an
\* expiry to the other key; the source key is gone.
C16_Witness ==
    /\ ret.op = "Rename" /\ ret.ok
    /\ DOMAIN items = Keys \ {ret.k}
    /\ \E k \in DOMAIN items : items[k].Expiration > 0 /\ written[k] = {}
    /\ onEvicted

\* C17: after DeleteExpired no entry that was expired at the sweep is in
\* the map and every entry that was unexpired is, unchanged, so ItemCount is
\* the number of entries that were unexpired; with a callback registered it
\* has been called exactly once for each removed entry, with its value, and
\* for no other.
C17_DeleteExpired ==
    [][StepOf("DeleteExpired") =>
          LET live == {k \in DOMAIN items : Live(k)}
              gone == (DOMAIN items) \ live
          IN  /\ DOMAIN items' = live
              /\ \A k \in live : items'[k] = items[k]
              /\ ItemCountReturn(items') = Cardinality(live)
              /\ Len(evicted') = IF onEvicted THEN Cardinality(gone) ELSE 0
              /\ onEvicted =>
                     \A k \in gone :
                         Cardinality({i \in 1..Len(evicted') :
                                         evicted'[i] = Call(k, items[k].Object)}) = 1]_vars

\* DeleteExpired has just removed one entry and called the callback for it,
\* and has kept an entry that expires at this very instant.
C17_Witness ==
    /\ ret.op = "DeleteExpired"
    /\ Len(evicted) = 1 /\ evicted[1].k \notin DOMAIN items
    /\ \E k \in DOMAIN items : items[k].Expiration = now

\* The janitor of the cache is running and nobody has asked it to stop.
JanitorRuns == pc[Janitor] \in {"select", "sweep"} /\ pc[Stopper] = "idle"

\* C18: with a cleanup interval > 0 and the janitor scheduled fairly and not
\* stopped, an entry that is expired is eventually no longer in the map as
\* an expired entry: a sweep of the janitor removes it, unless a caller
\* rewrites or removes it first; and a sweep of the janitor calls the
\* registered callback for every entry it removes.
C18_JanitorSweeps ==
    /\ \A k \in Keys :
           (JanitorRuns /\ k \in DOMAIN items /\ ~Live(k))
               ~> (~JanitorRuns \/ k \notin DOMAIN items \/ Live(k))
    /\ [][(pc[Janitor] = "sweep" /\ pc'[Janitor] = "select" /\ onEvicted) =>
              \A k \in (DOMAIN items) \ (DOMAIN items') :
                  \E i \in 1..Len(evicted') : evicted'[i] = Call(k, items[k].Object)]_vars

\* A sweep of the janitor has just removed an expired entry and called the
\* callback for it.
C18_Witness ==
    /\ JanitorRuns
    /\ loc[Janitor].removed # {}
    /\ Len(evicted) = 1 /\ evicted[1].k \in loc[Janitor].removed
    /\ ret.op # "DeleteExpired"

\* C19: once stopJanitor sends on j.stop, the janitor eventually receives
\* it, after finishing a sweep it is in, and its loop ends; from then on the
\* janitor takes no tick of its ticker and starts no sweep.
C19_JanitorStops ==
    /\ (pc[Stopper] = "sending") ~> (pc[Janitor] = "stopped" /\ pc[Stopper] = "sent")
    /\ [][pc[Janitor] = "stopped" =>
              /\ pc'[Janitor] = "stopped"
              /\ ~JanitorTick /\ ~JanitorSweep]_vars
    /\ [][(pc[Stopper] = "sent" /\ pc'[Stopper] = "sent") => pc[Janitor] = "stopped"]_vars

\* The janitor has stopped on the signal, and an expired entry is in the
\* map, which no sweep of the janitor removes any more.
C19_Witness ==
    /\ pc[Janitor] = "stopped" /\ pc[Stopper] = "sent"
    /\ \E k \in DOMAIN items : ~Live(k)

\* C20: a cache created with a cleanup interval <= 0 has no janitor: the
\* map changes only in a step of an operation a caller invokes, and an
\* expired entry stays in the map, counted by ItemCount, until DeleteExpired,
\* a removal or an overwrite by a caller.
C20_NoJanitor ==
    /\ [](loc[Janitor].Interval <= 0 => pc[Janitor] = "idle" /\ pc[Stopper] = "idle")
    /\ [][loc[Janitor].Interval <= 0 =>
              /\ items' # items => (pc' = pc /\ now' = now)
              /\ \A k \in DOMAIN items :
                     (~Live(k) /\ (k \notin DOMAIN items' \/ items'[k] # items[k])) =>
                         \/ ret'.op = "DeleteExpired"
                         \/ ret'.op \in {"Set", "Delete"} /\ ret'.k = k
              /\ ret'.op = "ItemCount" => ret'.r = Cardinality(DOMAIN items)]_vars

\* On a cache without a janitor ItemCount has just counted an entry that is
\* expired.
C20_Witness ==
    /\ loc[Janitor].Interval <= 0
    /\ ret.op = "ItemCount" /\ ret.r = Cardinality(Keys)
    /\ \A k \in DOMAIN items : ~Live(k)
    /\ now = MaxNow

\* The remover is in a call of op and takes the step from l1 to l2.
RemoverStep(op, l1, l2) ==
    loc[Remover].op = op /\ pc[Remover] = l1 /\ pc'[Remover] = l2

\* The sequence of calls has exactly one call for each entry of the map m,
\* with its key and value, and no other call.
OncePerEntry(calls, m) ==
    /\ Len(calls) = Cardinality(DOMAIN m)
    /\ \A k \in DOMAIN m :
           Cardinality({i \in 1..Len(calls) : calls[i] = Call(k, m[k].Object)}) = 1

\* C21: DeleteAll, holding the lock, empties the map and returns exactly the
\* entries that were in it, expired ones included; after it has released
\* the lock it calls the callback, when one is registered, exactly once for
\* each returned entry.
C21_DeleteAll ==
    /\ [][RemoverStep("DeleteAll", "take", "unlock") =>
              /\ mu.writer = {Remover}
              /\ items' = NoItems
              /\ loc'[Remover].m = items]_vars
    /\ [][RemoverStep("DeleteAll", "callbacks", "done") =>
              /\ Remover \notin mu.writer /\ Remover \notin mu.readers
              /\ IF onEvicted
                 THEN OncePerEntry(loc'[Remover].called, loc[Remover].m)
                 ELSE loc'[Remover].called = <<>>]_vars

\* DeleteAll, with no other caller in between, has returned both entries,
\* one of them past its expiry, and has called the callback for both.
C21_Witness ==
    /\ pc[Remover] = "done" /\ loc[Remover].op = "DeleteAll"
    /\ DOMAIN loc[Remover].m = Keys
    /\ loc[Remover].races = 0
    /\ now > Now0 + 1
    /\ Len(loc[Remover].called) = Cardinality(Keys)
    /\ items = NoItems

RemovedAsSeen ==
    /\ \A k \in DOMAIN loc[Remover].gone :
           k \in DOMAIN loc[Remover].saw /\ loc[Remover].gone[k] = loc[Remover].saw[k]
    /\ \A k \in DOMAIN loc[Remover].m :
           k \in DOMAIN loc[Remover].saw /\ loc[Remover].m[k] = loc[Remover].saw[k]
    /\ \A i \in 1..Len(loc[Remover].called) :
           \E k \in DOMAIN loc[Remover].saw :
               loc[Remover].called[i] = Call(k, loc[Remover].saw[k].Object)

\* C23: DeleteFunc removes items atomically: every entry it removed is
\* returned, and passed to the callback, with exactly the value and expiry
\* the filter saw, and no entry written by another caller's Set after the
\* filter ran is removed. Stated for both DeleteFunc bodies of the
\* repository.
C23_DeleteFuncAtomic ==
    (pc[Remover] = "done" /\ loc[Remover].op \in {"DeleteFunc", "DeleteFuncKeyset"}) =>
        RemovedAsSeen

\* The keys Get finds at this instant.
Found == {k \in Keys : GetReturn(items, k, now).ok}

C25_GetsAgree ==
    /\ [](\A k \in Keys :
            LET g  == GetReturn(items, k, now)
                gw == GetWithExpireReturn(items, k, now)
                gs == GetStaleReturn(items, k, now)
            IN  /\ gs.ok <=> k \in DOMAIN items
                /\ gs.expired <=> (k \in DOMAIN items /\ items[k].Expiration > 0
                                      /\ now > items[k].Expiration)
                /\ g.ok <=> (gs.ok /\ ~gs.expired)
                /\ gw.ok <=> (gs.ok /\ ~gs.expired)
                /\ gs.ok => gs.v = items[k].Object
                /\ g.ok => (g.v = gs.v /\ gw.v = gs.v)
                /\ ~g.ok => (g.v = Zero /\ gw.v = Zero /\ gw.e = 0)
                /\ ~gs.ok => (gs.v = Zero /\ ~gs.expired)
                /\ gw.ok => gw.e = IF items[k].Expiration > 0
                                   THEN items[k].Expiration ELSE 0)
    /\ [][/\ StepOf("GetStale") => ret'.r = GetStaleReturn(items, ret'.k, now)
          /\ StepOf("GetWithExpire") => ret'.r = GetWithExpireReturn(items, ret'.k, now)
          /\ StepOf("Get") => (/\ ret'.v = GetReturn(items, ret'.k, now).v
                               /\ ret'.ok = GetReturn(items, ret'.k, now).ok)]_vars

\* GetWithExpire has found an entry at the very clock time of its expiry,
\* and returned that expiry, while another entry of the map is expired.
C25_Witness ==
    /\ ret.op = "GetWithExpire" /\ ret.r.ok /\ ret.r.e = now
    /\ \E k \in Keys : GetStaleReturn(items, k, now).expired

\* C26: Add fails exactly when the key is present and unexpired, and a
\* failing Add leaves the map, and so that entry's value and expiry and what
\* Get returns for it, unchanged; Replace fails exactly when the key is
\* absent or expired, and a failing Replace leaves the map unchanged, so the
\* key is still not found afterwards.
C26_FailingAddReplace ==
    /\ [][StepOf("Add") =>
              /\ ~ret'.ok <=> Live(ret'.k)
              /\ ~ret'.ok =>
                     /\ items' = items
                     /\ items'[ret'.k] = items[ret'.k]
                     /\ GetReturn(items', ret'.k, now') = GetReturn(items, ret'.k, now)
                     /\ GetReturn(items', ret'.k, now').ok]_vars
    /\ [][StepOf("Replace") =>
              /\ ~ret'.ok <=> ~Live(ret'.k)
              /\ ~ret'.ok =>
                     /\ items' = items
                     /\ ~GetReturn(items', ret'.k, now').ok]_vars

\* Add has failed on an entry at the very clock time of its expiry, and the
\* entry is in the map as it was written.
C26_Witness ==
    /\ ret.op = "Add" /\ ~ret.ok
    /\ Live(ret.k)
    /\ items[ret.k].Expiration = now
    /\ now > Now0

\* C27: a thread whose populate function is running does not hold the
\* store's lock, and whoever holds the lock then is at a step of GetOrSet
\* that releases it without waiting for the gate or for f; so whenever the
\* lock is free while f runs, Get, Set, Delete and Modify of another caller
\* on any key can take it and complete.
C27_PopulateUnlocked ==
    /\ [](\A t \in Threads :
            pc[t] = "f" =>
                /\ t \notin mu.writer /\ t \notin mu.readers
                /\ \A u \in mu.writer \cup mu.readers :
                       pc[u] \in {"read", "runlock", "rereadRead"})
    /\ []((Populating /\ mu = Unlocked) => (ENABLED CallerWrites /\ ENABLED CallerReads))

\* While a populate function is running another caller's Set on the key
\* being populated and on another key have taken effect.
C27_Witness ==
    /\ Populating
    /\ ret.op = "Set"
    /\ DOMAIN items = Keys
    /\ \A k \in Keys : items[k].Object \in Values
    /\ mu = Unlocked

\* C28: when GetOrSet's test finds the key present and unexpired, the call
\* goes straight to its return: it returns the value it read from the map,
\* never calls the populate function, and none of its steps changes the map,
\* the gate or the goroutines that forget.
C28_GetOrSetHit ==
    /\ [][\A t \in Threads :
              (pc[t] = "read" /\ pc'[t] # "read" /\ GateKey \in DOMAIN items) =>
                  (loc'[t].ok /\ loc'[t].item = items[GateKey])]_vars
    /\ [][\A t \in Threads :
              (pc[t] = "runlock" /\ pc'[t] # "runlock" /\ loc[t].ok
                  /\ ~expired(loc[t].item, now)) =>
                  (pc'[t] = "return" /\ loc'[t].hit)]_vars
    /\ [][\A t \in Threads :
              (pc'[t] # pc[t] /\ (loc'[t].hit \/ pc[t] \in {"start", "read", "runlock"})) =>
                  (items' = items /\ getOrSetOnce' = getOrSetOnce
                      /\ forgetters' = forgetters)]_vars
    /\ [](\A t \in Threads :
            loc[t].hit =>
                /\ pc[t] \in {"return", "done"}
                /\ ~loc[t].populated /\ ~loc[t].ran
                /\ loc[t].ok
                /\ pc[t] = "done" => loc[t].result = loc[t].item.Object)

\* Both callers of GetOrSet found the stored entry at the clock time of its
\* expiry and returned its value, and the clock has ticked since; nothing
\* was populated and the gate is as it was made.
C28_Witness ==
    /\ \A t \in Threads : pc[t] = "done" /\ loc[t].hit /\ loc[t].result = Stored
    /\ GateKey \in DOMAIN items /\ items[GateKey] = Item(Stored, Now0)
    /\ getOrSetOnce = NewOnce /\ forgetters = {}
    /\ now > Now0

\* C29: when a populate function has panicked, the gate marks the key idle
\* again: once the gate's mutex is free and no populate that returned is
\* still to be forgotten, the key is not marked done, so that the next
\* GetOrSet that misses the key calls its populate function.
C29_PanicIdle ==
    (/\ \E t \in Threads : pc[t] = "panicked"
     /\ getOrSetOnce.m = {}
     /\ forgetters = {}
     /\ \A u \in Threads : pc[u] # "spawn") =>
        GateKey \notin getOrSetOnce.done

\* C30: the gate belongs to one cache instance: a GetOrSet on another cache
\* instance with the same key string never finds the gate's mutex held when
\* it calls Do, and when it missed the key it has called its own populate
\* function and returns that function's value.
C30_GatePerCache ==
    /\ pc[Peer] = "do" => getOrSetOnce.m = {}
    /\ (pc[Peer] = "done" /\ ~loc[Peer].hit) =>
           (loc[Peer].populated /\ loc[Peer].result = Populate(Peer).v)

\* C31: Keyset.Delete does what Delete on each key of the set in order does:
\* an iteration removes its key as delete does, the callback is called once
\* for each key that was in the map and never for an absent one, and while
\* the callback runs the calling thread holds the store's lock neither for
\* reading nor for writing.
C31_KeysetDelete ==
    \A t \in Threads :
        loc[t].op = "Delete" =>
            /\ pc[t] = "cb" => (t \notin mu.readers /\ t \notin mu.writer)
            /\ (pc[t] = "done" /\ \A u \in Threads \ {t} : pc[u] = "start") =>
                   \A i \in 1..Len(loc[t].keys) : loc[t].keys[i] \notin DOMAIN items
            /\ Len(loc[t].called) <= Len(loc[t].keys)
            /\ \A i, j \in 1..Len(loc[t].called) :
                   loc[t].called[i].k = loc[t].called[j].k => i = j

\* C32: when Keyset.Get has returned, its result has one element per key of
\* the set, in the set's order, and there is one map the store held while
\* the call had the lock for which every element is what Get returns for
\* its key: (value, true) for a key present and unexpired in that map,
\* (zero, false) for an absent or expired one; the keyset is as it was.
C32_KeysetGet ==
    \A t \in Threads :
        (loc[t].op = "Get" /\ pc[t] = "done") =>
            /\ Len(loc[t].got) = Len(loc[t].keys)
            /\ loc[t].keys \in KeysetKeys
            /\ \E S \in loc[t].snaps :
                   \A i \in 1..Len(loc[t].keys) :
                       loc[t].got[i] = MultiRet(S, loc[t].keys[i], now)

LinkOps == {"ProxyProxy", "ProxyDelete", "ProxyReset"}

\* C33: Proxy.Get(p) returns what Get(m) returns when p is linked to m and
\* (zero, false) when p has no link, and changes nothing; Proxy, Delete and
\* Reset of the proxy leave the cache's entries unchanged; and the links
\* change only in a call of Proxy, Delete, Reset or Set of the proxy, so no
\* link is removed when its main entry expires or is deleted.
C33_Proxy ==
    /\ [][StepOf("ProxyGet") =>
              /\ IF ret'.k \in DOMAIN Links
                 THEN /\ ret'.v = GetReturn(items, Links[ret'.k], now).v
                      /\ ret'.ok = GetReturn(items, Links[ret'.k], now).ok
                 ELSE ret'.v = Zero /\ ~ret'.ok
              /\ items' = items /\ Links' = Links]_vars
    /\ [][(now' = now /\ ret'.op \in LinkOps) => items' = items]_vars
    /\ [][Links' # Links => ret'.op \in LinkOps \cup {"ProxySet"}]_vars
    /\ [][(ret'.op \in {"Delete", "DeleteExpired", "Set"} \/ now' # now) => Links' = Links]_vars

\* Proxy.Get has not found a linked key whose main entry is in the map but
\* expired, while the other proxy key is linked to a main key that is not in
\* the map.
C33_Witness ==
    /\ ret.op = "ProxyGet" /\ ~ret.ok
    /\ DOMAIN Links = ProxyKeys
    /\ Links[ret.k] \in DOMAIN items /\ ~Live(Links[ret.k])
    /\ \E pk \in ProxyKeys : Links[pk] \notin DOMAIN items

\* C34: a populate function running for one key does not hold the gate's
\* lock, and so a caller of GetOrSet for another absent key that has
\* reached once.Do is not blocked by it.
C34_KeysIndependent ==
    \A t \in Threads :
        InF(t) =>
            /\ getOrSetOnce.m = {}
            /\ \A u \in Threads \ {t} :
                   (pc[u] = "do" /\ loc[u].k # loc[t].k) => ENABLED DoLock(u)

\* C35: a key is marked in once.done exactly while the function that
\* once.Do invokes for it is executing.
C35_MarkedWhileRunning ==
    \A k \in Keys :
        k \in getOrSetOnce.done <=> \E t \in Threads : loc[t].k = k /\ InDoFunc(t)

\* The calls of Do for key k that have invoked f since k was last forgotten.
CallsOf(k) == {c \in getOrSetOnce.calls : c.key = k}

\* C40: between two Forgets of a key, once.Do invokes f for at most one
\* caller and returns true to that caller; every other Do for the key
\* returns false without invoking f, and no Do for the key returns while
\* the one invocation of f has not returned.
C40_OncePerKey ==
    /\ [](\A c, d \in getOrSetOnce.calls : c.key = d.key => c.by = d.by)
    /\ [](\A t \in Threads : InDoFunc(t) =>
              /\ getOrSetOnce.m = {t}
              /\ CallsOf(loc[t].k) = {[by |-> t, key |-> loc[t].k]}
              /\ loc[t].k \notin getOrSetOnce.done)
    /\ [][\A t \in Threads :
              /\ (pc[t] = "doReturn" /\ pc'[t] # "doReturn") =>
                     /\ loc'[t].ran
                     /\ loc[t].k \in getOrSetOnce'.done
              /\ (pc[t] = "doCheck" /\ pc'[t] = "reread") =>
                     /\ ~loc'[t].ran /\ ~loc'[t].populated
                     /\ getOrSetOnce'.calls = getOrSetOnce.calls
                     /\ \E c \in CallsOf(loc[t].k) : c.by # t /\ ~InDoFunc(c.by)
                     /\ \A u \in Threads : ~InDoFunc(u)
              /\ (pc[t] = "doCheck" /\ pc'[t] = "f") =>
                     CallsOf(loc[t].k) = {}]_vars

\* One caller's Do has invoked f and returned true, and another caller's Do
\* for the same key, not yet forgotten, has returned false without
\* invoking f.
C40_Witness ==
    \E t, u \in Threads :
        /\ t # u /\ loc[t].k = loc[u].k
        /\ loc[t].ran /\ loc[t].populated
        /\ pc[u] = "reread" /\ ~loc[u].populated
        /\ CallsOf(loc[t].k) = {[by |-> t, key |-> loc[t].k]}

\* C36: a thread that writes the map holds the write lock, so no two
\* threads write the map at the same time and none writes it while another
\* reads it.
C36_WritersExclusive ==
    \A t \in Threads :
        Mutating(t) =>
            /\ mu.writer = {t}
            /\ \A u \in Threads \ {t} : ~InRange(u)

\* C37: while another caller replaces the callback, also with nil, no
\* removal calls a nil callback; and whenever a removal reads the callback
\* reference to test it or to call it, it holds the lock.
C37_NoNilCall ==
    \A t \in Threads :
        /\ pc[t] # "panic"
        /\ ReadsCallback(t) => (t \in mu.writer \/ t \in mu.readers)

\* C38: the function given to Modify, DeleteFunc or Find runs while its
\* caller holds the write lock; as long as it runs no other caller's
\* operation is under the lock or can take it, and the map changes only by
\* what the function's caller does after it returned; a function that calls
\* c.Get or c.Set on the same cache does not return.
C38_FnUnderLock ==
    /\ [](\A t \in Threads : pc[t] = "fn" =>
              /\ mu = [writer |-> {t}, readers |-> {}]
              /\ \A u \in (Threads \cup {Getter}) \ {t} : pc[u] \in {"start", "lock", "done"}
              /\ ~ENABLED GetRLock(Getter)
              /\ \A u \in Threads \ {t} : ~ENABLED FnLock(u)
              /\ loc[t].fn # "pure" => ~ENABLED FnRun(t))
    /\ [][\A t \in Threads :
              /\ pc[t] = "fn" => (items' = items /\ mu' = mu)
              /\ (pc[t] = "fn" /\ loc[t].fn # "pure") => (pc'[t] = "fn" /\ loc'[t] = loc[t])]_vars

\* The filter given to Find calls c.Get on the first entry of the range and
\* its caller is in it, holding the write lock; another caller is at its
\* c.mu.Lock() and the caller of Get is at its c.mu.RLock().
C38_Witness ==
    \E t \in Threads, u \in Threads :
        /\ t # u
        /\ pc[t] = "fn" /\ loc[t].fn = "Get" /\ loc[t].op = "Find" /\ loc[t].keys = {}
        /\ pc[u] = "lock"
        /\ pc[Getter] = "start"
        /\ mu.writer = {t}

\* The keys of the calls in the sequence q.
CallKeys(q) == {q[i].k : i \in 1..Len(q)}

\* C39: when DeleteExpired examines the map under the lock, every entry it
\* removes is expired at that moment; an entry that a Set or a Touch left
\* unexpired after DeleteExpired read the clock and before it took the lock
\* is not removed, and the callback is called for removed entries only.
C39_SweepExpiredOnly ==
    [][\A t \in {Sweeper} :
          (pc[t] = "body" /\ pc'[t] = "unlock") =>
              /\ \A k \in (DOMAIN items) \ DOMAIN items' : expired(items[k], now)
              /\ \A k \in DOMAIN items' : items'[k] = items[k]
              /\ \A k \in loc[t].touched \cap DOMAIN items : k \in DOMAIN items'
              /\ CallKeys(loc'[t].pending) = (DOMAIN items) \ DOMAIN items']_vars

\* DeleteExpired has examined the map after the clock had advanced since
\* it read it: it removed an entry and kept one that was set or touched
\* in between and that has expired again since.
C39_Witness ==
    \E t \in {Sweeper} :
        /\ pc[t] = "unlock"
        /\ loc[t].now < now
        /\ loc[t].pending # <<>>
        /\ \E k \in loc[t].touched : k \in DOMAIN items /\ expired(items[k], now)

====
